---- MODULE Spec2Model ----
(***************************************************************************)
(* BioMINTech stock tracker (src/src/lib/inventory.ts): the record store,  *)
(* its write-through to localStorage or to the Supabase backend, and the   *)
(* realtime merge of backend change events, for a handful of browser       *)
(* clients sharing one backend.                                            *)
(*                                                                         *)
(* Optional JS / SQL values (undefined, null) are sequences of length 0 or *)
(* 1: None is <<>> and Some(x) is <<x>>.  Status strings are written in    *)
(* English: "Normal" (ปกติ), "Low" (ใกล้หมด), "Empty" (หมด).                   *)
(***************************************************************************)
EXTENDS Integers, Sequences, FiniteSets, TLC

\* ---------------------------------------------------------------- bounds
MaxQty == 2
MaxClock == 1
MaxOps == 2
MaxQueue == 1
MaxInFlight == 1
MaxThreshold == 2
FnMaxQty == 6
FnMaxLow == 5
MaxLen == 3

Clients == {"c1", "c2"}

\* ------------------------------------------------------- optional values
None == <<>>
Some(x) == <<x>>
OrElse(o, d) == IF o = None THEN d ELSE o[1]

Max2(a, b) == IF a >= b THEN a ELSE b
Min2(a, b) == IF a <= b THEN a ELSE b

\* ------------------------------------------------------ helpers & seed
DEFAULT_CHECKERS == <<"Nice", "Fah">>

\* every name that can be typed into the "add member" input
MemberInputs == {"Bo", "nice"}

toLowerCase(s) ==
  CASE s = "Nice" -> "nice"
    [] s = "Fah"  -> "fah"
    [] s = "Bo"   -> "bo"
    [] OTHER      -> s

computeStatusLowOnly(qty, low) ==
  IF qty <= low THEN "Low" ELSE "Normal"

computeStatus(qty, low) ==
  IF qty <= 0 THEN "Empty"
  ELSE IF qty <= low THEN "Low"
  ELSE "Normal"

\* SEED rows 1 and 53 of the 55 seed records
SEED == <<
  [id |-> 1, category |-> "misc", name |-> "tissue", qty |-> 0, unit |-> "roll",
   status |-> "Empty", location |-> "shelf", checkedBy |-> None, lastUpdated |-> None],
  [id |-> 53, category |-> "cell", name |-> "trypan blue", qty |-> 1, unit |-> "tube",
   status |-> "Empty", location |-> "bench", checkedBy |-> None, lastUpdated |-> None] >>

Ids == {SEED[i].id : i \in 1..Len(SEED)}

\* the rows whose buttons the user presses
ActIds == {53}

\* --------------------------------------------------- sequence utilities
Map(s, f(_)) == [i \in 1..Len(s) |-> f(s[i])]
Range(s) == {s[i] : i \in 1..Len(s)}
IdsOf(s) == {s[i].id : i \in 1..Len(s)}
Some_x(s, p(_)) == \E i \in 1..Len(s) : p(s[i])
Find(s, id) == IF \E i \in 1..Len(s) : s[i].id = id
               THEN Some(s[CHOOSE i \in 1..Len(s) : s[i].id = id /\ \A j \in 1..(i-1) : s[j].id # id])
               ELSE None

\* new Set(list) / Array.from(set): first occurrences in insertion order
RECURSIVE Dedup(_)
Dedup(s) == IF s = <<>> THEN <<>>
            ELSE LET r == Dedup(SubSeq(s, 1, Len(s) - 1))
                     x == s[Len(s)]
                 IN IF x \in Range(r) THEN r ELSE Append(r, x)

\* sequence of the members of a finite set of integers, ascending
RECURSIVE SortedIds(_)
SortedIds(S) == IF S = {} THEN <<>>
                ELSE LET m == CHOOSE x \in S : \A y \in S : x <= y
                     IN <<m>> \o SortedIds(S \ {m})

\* ------------------------------------------------ item <-> row conversion
toRow(it) ==
  [id |-> it.id, category |-> it.category, name |-> it.name, qty |-> it.qty,
   unit |-> it.unit, status |-> it.status, location |-> it.location,
   checked_by |-> Some(OrElse(it.checkedBy, <<>>)),
   last_updated |-> it.lastUpdated]

rowToItem(r) ==
  [id |-> r.id, category |-> r.category, name |-> r.name, qty |-> r.qty,
   unit |-> r.unit, status |-> r.status, location |-> r.location,
   checkedBy |-> Some(OrElse(r.checked_by, <<>>)),
   lastUpdated |-> r.last_updated]

mergeOneAppend(prev, it) == Append(prev, it)

mergeOneKeepChecked(prev, it) ==
  IF \E i \in 1..Len(prev) : prev[i].id = it.id
  THEN [i \in 1..Len(prev) |->
          IF prev[i].id = it.id THEN [it EXCEPT !.checkedBy = prev[i].checkedBy] ELSE prev[i]]
  ELSE Append(prev, it)

mergeOneNewest(prev, it) ==
  IF \E i \in 1..Len(prev) : prev[i].id = it.id
  THEN [i \in 1..Len(prev) |->
          IF prev[i].id = it.id
          THEN (IF OrElse(prev[i].lastUpdated, 0) > OrElse(it.lastUpdated, 0) THEN prev[i] ELSE it)
          ELSE prev[i]]
  ELSE Append(prev, it)

mergeOne(prev, it) ==
  IF \E i \in 1..Len(prev) : prev[i].id = it.id
  THEN [i \in 1..Len(prev) |-> IF prev[i].id = it.id THEN it ELSE prev[i]]
  ELSE Append(prev, it)


\* ------------------------------------------------------------ the state
VARIABLES
  hasSupabase,   \* remote configuration present (fixed at build time)
  dbItems,       \* backend table items: id -> None | Some(row)
  dbCheckers,    \* backend table checkers: set of names
  ls,            \* per client localStorage: [items, checkers], each optional
  pc,            \* per client position of the load effect
  loadRes,       \* per client result of dbLoadAll held across the awaits
  bootIdx,       \* per client next SEED index of the bootstrap loop
  items,         \* per client React state items
  checkers,      \* per client React state checkers
  rendered,      \* per client snapshot [items, checkers] the handlers close over
  loading,       \* per client React state loading
  errorMsg,      \* per client React state errorMsg (optional)
  autoStatus,    \* per client React state autoStatus
  lowThreshold,  \* per client React state lowThreshold
  checkOpen,     \* per client quick-check modal open
  checkTarget,   \* per client quick-check target (optional item)
  checkSelected, \* per client quick-check selection (insertion ordered)
  subscribed,    \* per client realtime channel joined
  queue,         \* per client change events delivered, not yet handled
  tasks,         \* per client handlers suspended at an await
  now,           \* the clock nowISO reads
  ops,           \* number of user actions so far
  rejected,      \* per client handlers that ended in a rejection
  lastEv,        \* per client outcome of the last item event handled
  watch,         \* per client its last write of a record, while nothing else
                 \* has touched that record locally: None | Some([id, tag])
  everIn,        \* per client the names its roster has held so far
  q,             \* table view: search text
  cat,           \* table view: category filter
  stat,          \* table view: status filter
  loc,           \* table view: location filter
  onlyLow,       \* table view: only-non-normal flag
  sortKey,       \* table view: sort column
  sortAsc,       \* table view: sort direction
  sortLog,       \* table view: the last setSort call, None | Some([sel, key, asc])
  call,          \* a call of a pure helper: its name and arguments, or None
  ret            \* the value that call returned, or None

vars == <<hasSupabase, dbItems, dbCheckers, ls, pc, loadRes, bootIdx, items,
          checkers, rendered, loading, errorMsg, autoStatus, lowThreshold,
          checkOpen, checkTarget, checkSelected, subscribed, queue, tasks,
          now, ops, rejected, lastEv, watch, everIn,
          q, cat, stat, loc, onlyLow, sortKey, sortAsc, sortLog, call, ret>>

backendVars == <<dbItems, dbCheckers>>
loadVars == <<pc, loadRes, bootIdx, loading, errorMsg, subscribed>>
settingVars == <<autoStatus, lowThreshold>>
modalVars == <<checkOpen, checkTarget, checkSelected>>
ghostVars == <<rejected, lastEv, watch>>
\* the table view settings and the helper calls: separate state that no
\* step of the store reads or writes
viewVars == <<q, cat, stat, loc, onlyLow, sortKey, sortAsc, sortLog>>
callVars == <<call, ret>>
storeVars == <<hasSupabase, dbItems, dbCheckers, ls, pc, loadRes, bootIdx, items,
               checkers, rendered, loading, errorMsg, autoStatus, lowThreshold,
               checkOpen, checkTarget, checkSelected, subscribed, queue, tasks,
               now, ops, rejected, lastEv, watch, everIn>>

\* the value "ทั้งหมด" (all) of the category, status and location filters
ALL == "all"

\* useState initial values of the table view (284-290)
ViewDefaults ==
  /\ q = "" /\ cat = ALL /\ stat = ALL /\ loc = ALL
  /\ onlyLow = FALSE
  /\ sortKey = "id" /\ sortAsc = TRUE
  /\ sortLog = None

NoCall == call = None /\ ret = None

NoEv == [op |-> "none", id |-> 0, existed |-> FALSE, stale |-> FALSE, same |-> FALSE,
         kept |-> FALSE, echo |-> FALSE]

Init ==
  /\ hasSupabase = TRUE
  /\ dbItems = [i \in Ids |-> None]
  /\ dbCheckers = {}
  /\ ls = [c \in Clients |-> [items |-> None, checkers |-> None]]
  /\ pc = [c \in Clients |-> "mount"]
  /\ loadRes = [c \in Clients |-> [items |-> <<>>, checkers |-> <<>>]]
  /\ bootIdx = [c \in Clients |-> 1]
  /\ items = [c \in Clients |-> SEED]
  /\ checkers = [c \in Clients |-> DEFAULT_CHECKERS]
  /\ rendered = [c \in Clients |-> [items |-> SEED, checkers |-> DEFAULT_CHECKERS]]
  /\ loading = [c \in Clients |-> TRUE]
  /\ errorMsg = [c \in Clients |-> None]
  /\ autoStatus = [c \in Clients |-> TRUE]
  /\ lowThreshold = [c \in Clients |-> 1]
  /\ checkOpen = [c \in Clients |-> FALSE]
  /\ checkTarget = [c \in Clients |-> None]
  /\ checkSelected = [c \in Clients |-> <<>>]
  /\ subscribed = [c \in Clients |-> FALSE]
  /\ queue = [c \in Clients |-> <<>>]
  /\ tasks = [c \in Clients |-> <<>>]
  /\ now = 1
  /\ ops = 0
  /\ rejected = [c \in Clients |-> {}]
  /\ lastEv = [c \in Clients |-> NoEv]
  /\ watch = [c \in Clients |-> None]
  /\ everIn = [c \in Clients |-> Range(DEFAULT_CHECKERS)]
  /\ ViewDefaults
  /\ NoCall

\* ------------------------------------------------------------ backend
\* names in the order the backend returns them for order("name")
NameOrder == <<"Bo", "Fah", "Nice", "nice">>
SortedNames(S) == SelectSeq(NameOrder, LAMBDA n : n \in S)

\* rows of the items table ordered by id, converted as dbLoadAll does
DbRowsAsItems ==
  LET present == {i \in Ids : dbItems[i] # None}
      order == SortedIds(present)
  IN [k \in 1..Len(order) |-> rowToItem(dbItems[order[k]][1])]

\* the realtime publisher: every joined channel gets the events, in order
CanBroadcast(n) == \A c \in Clients : subscribed[c] => Len(queue[c]) + n <= MaxQueue
Broadcast(evs) ==
  queue' = [c \in Clients |-> IF subscribed[c] THEN queue[c] \o evs ELSE queue[c]]

\* by: the write the event stems from, <<client, tag>> (not in the payload)
ItemEvent(op, row, by) ==
  [table |-> "items", op |-> op, row |-> Some(row), id |-> row.id, name |-> "", by |-> by]
ItemDeleted(id, by) ==
  [table |-> "items", op |-> "DELETE", row |-> None, id |-> id, name |-> "", by |-> by]
CheckerEvent(op, n, by) ==
  [table |-> "checkers", op |-> op, row |-> None, id |-> 0, name |-> n, by |-> by]

\* an insert that leaves a row of the same id as it is
UpsertRowInsertOnly(row, by) ==
  /\ CanBroadcast(1)
  /\ dbItems' = [dbItems EXCEPT ![row.id] = IF @ = None THEN Some(row) ELSE @]
  /\ Broadcast(<<ItemEvent(IF dbItems[row.id] = None THEN "INSERT" ELSE "UPDATE", row, by)>>)

\* items.upsert(row): insert if absent, replace if present, keyed on id
UpsertRow(row, by) ==
  /\ CanBroadcast(1)
  /\ dbItems' = [dbItems EXCEPT ![row.id] = Some(row)]
  /\ Broadcast(<<ItemEvent(IF dbItems[row.id] = None THEN "INSERT" ELSE "UPDATE", row, by)>>)

\* ----------------------------------------------- dbLoadAll / load effect
StoredItems(c) == OrElse(ls[c].items, SEED)
StoredCheckers(c) == OrElse(ls[c].checkers, DEFAULT_CHECKERS)
OrSeed(its) == IF Len(its) # 0 THEN its ELSE SEED
OrDefault(chs) == IF Len(chs) # 0 THEN chs ELSE DEFAULT_CHECKERS

\* the render that commits a state change made in a click handler or by
\* the load effect: the handlers close over the new state
Flushed(c, its, chs) == [rendered EXCEPT ![c] = [items |-> its, checkers |-> chs]]

\* every name of the roster client c holds after the step has been in it
Remembered(c) == everIn' = [everIn EXCEPT ![c] = @ \cup Range(checkers'[c])]

\* a catch branch after which the loading state is left as it was
LoadCatchNoFinally(c) ==
  /\ errorMsg' = [errorMsg EXCEPT ![c] = Some("error")]
  /\ items' = [items EXCEPT ![c] = StoredItems(c)]
  /\ checkers' = [checkers EXCEPT ![c] = StoredCheckers(c)]
  /\ loading' = loading
  /\ pc' = [pc EXCEPT ![c] = "failed"]
  /\ rendered' = Flushed(c, StoredItems(c), StoredCheckers(c))

\* the catch branch of the load effect
LoadCatch(c) ==
  /\ errorMsg' = [errorMsg EXCEPT ![c] = Some("error")]
  /\ items' = [items EXCEPT ![c] = StoredItems(c)]
  /\ checkers' = [checkers EXCEPT ![c] = StoredCheckers(c)]
  /\ loading' = [loading EXCEPT ![c] = FALSE]
  /\ pc' = [pc EXCEPT ![c] = "failed"]
  /\ rendered' = Flushed(c, StoredItems(c), StoredCheckers(c))

\* persist effects that write only when a backend is configured
PersistEffectRemoteOnly(c, its, chs) ==
  IF hasSupabase THEN [ls EXCEPT ![c] = [items |-> Some(its), checkers |-> Some(chs)]]
  ELSE ls

\* commit of a render: handlers now close over the current state, and the
\* persist effects write it to localStorage when no backend is configured
PersistEffect(c, its, chs) ==
  IF ~hasSupabase THEN [ls EXCEPT ![c] = [items |-> Some(its), checkers |-> Some(chs)]]
  ELSE ls

\* local variant: dbLoadAll reads localStorage, the effect sets the state
\* and the loading flag, and the persist effects of the renders at mount
\* and after the load write the state back
LoadLocal(c) ==
  /\ pc[c] = "mount" /\ ~hasSupabase
  /\ loadRes' = [loadRes EXCEPT ![c] = [items |-> StoredItems(c), checkers |-> StoredCheckers(c)]]
  /\ items' = [items EXCEPT ![c] = OrSeed(StoredItems(c))]
  /\ checkers' = [checkers EXCEPT ![c] = OrDefault(StoredCheckers(c))]
  /\ rendered' = Flushed(c, OrSeed(StoredItems(c)), OrDefault(StoredCheckers(c)))
  /\ ls' = PersistEffect(c, OrSeed(StoredItems(c)), OrDefault(StoredCheckers(c)))
  /\ loading' = [loading EXCEPT ![c] = FALSE]
  /\ pc' = [pc EXCEPT ![c] = "ready"]
  /\ Remembered(c)
  /\ UNCHANGED <<viewVars, callVars, hasSupabase, backendVars, bootIdx, errorMsg,
                 settingVars, modalVars, subscribed, queue, tasks, now, ops, ghostVars>>

\* a load that starts the bootstrap whatever the table holds
DbLoadAllBoots(c) ==
  /\ pc[c] = "mount" /\ hasSupabase
  /\ loadRes' = [loadRes EXCEPT ![c] =
        [items |-> DbRowsAsItems, checkers |-> OrDefault(SortedNames(dbCheckers))]]
  /\ bootIdx' = [bootIdx EXCEPT ![c] = 1]
  /\ pc' = [pc EXCEPT ![c] = "boot"]
  /\ UNCHANGED <<viewVars, callVars, everIn, hasSupabase, backendVars, ls, items, checkers, rendered, loading, errorMsg,
                 settingVars, modalVars, subscribed, queue, tasks, now, ops, ghostVars>>

\* remote variant: the three selects of dbLoadAll answer
DbLoadAll(c) ==
  /\ pc[c] = "mount" /\ hasSupabase
  /\ loadRes' = [loadRes EXCEPT ![c] =
        [items |-> DbRowsAsItems, checkers |-> OrDefault(SortedNames(dbCheckers))]]
  /\ bootIdx' = [bootIdx EXCEPT ![c] = 1]
  /\ pc' = [pc EXCEPT ![c] = IF Len(DbRowsAsItems) = 0 THEN "boot" ELSE "finish"]
  /\ UNCHANGED <<viewVars, callVars, everIn, hasSupabase, backendVars, ls, items, checkers, rendered, loading, errorMsg,
                 settingVars, modalVars, subscribed, queue, tasks, now, ops, ghostVars>>

\* remote variant: a select of dbLoadAll is rejected
DbLoadAllFail(c) ==
  /\ pc[c] = "mount" /\ hasSupabase
  /\ LoadCatch(c)
  /\ Remembered(c)
  /\ UNCHANGED <<viewVars, callVars, hasSupabase, backendVars, ls, loadRes, bootIdx,
                 settingVars, modalVars, subscribed, queue, tasks, now, ops, ghostVars>>

\* one iteration of the bootstrap loop: await dbUpsertItem(SEED[k])
Bootstrap(c) ==
  /\ pc[c] = "boot"
  /\ UpsertRow(toRow(SEED[bootIdx[c]]), <<c, 0>>)
  /\ bootIdx' = [bootIdx EXCEPT ![c] = bootIdx[c] + 1]
  /\ pc' = [pc EXCEPT ![c] = IF bootIdx[c] = Len(SEED) THEN "finish" ELSE "boot"]
  /\ UNCHANGED <<viewVars, callVars, everIn, hasSupabase, dbCheckers, ls, loadRes, items, checkers, rendered, loading,
                 errorMsg, settingVars, modalVars, subscribed, tasks, now, ops, ghostVars>>

\* a bootstrap upsert is rejected: dbUpsertItem throws into the catch branch
BootstrapFail(c) ==
  /\ pc[c] = "boot"
  /\ LoadCatch(c)
  /\ Remembered(c)
  /\ UNCHANGED <<viewVars, callVars, hasSupabase, backendVars, ls, loadRes, bootIdx,
                 settingVars, modalVars, subscribed, queue, tasks, now, ops, ghostVars>>

\* setItems / setCheckers, subscribe to the realtime channel, finally; the
\* loading banner goes with the render that shows the loaded state
LoadFinish(c) ==
  /\ pc[c] = "finish"
  /\ items' = [items EXCEPT ![c] = OrSeed(loadRes[c].items)]
  /\ checkers' = [checkers EXCEPT ![c] = OrDefault(loadRes[c].checkers)]
  /\ subscribed' = [subscribed EXCEPT ![c] = TRUE]
  /\ loading' = [loading EXCEPT ![c] = FALSE]
  /\ pc' = [pc EXCEPT ![c] = "ready"]
  /\ rendered' = Flushed(c, OrSeed(loadRes[c].items), OrDefault(loadRes[c].checkers))
  /\ Remembered(c)
  /\ UNCHANGED <<viewVars, callVars, hasSupabase, backendVars, ls, loadRes, bootIdx, errorMsg,
                 settingVars, modalVars, queue, tasks, now, ops, ghostVars>>

\* a render follows every setItems / setCheckers call; without a backend the
\* one whose output is the same as the last one's still runs the persist
\* effects, because map and filter return a new array
Render(c) ==
  /\ \/ rendered[c] # [items |-> items[c], checkers |-> checkers[c]]
     \/ /\ ~hasSupabase /\ pc[c] = "ready"
        /\ ls[c] # [items |-> Some(items[c]), checkers |-> Some(checkers[c])]
  /\ rendered' = [rendered EXCEPT ![c] = [items |-> items[c], checkers |-> checkers[c]]]
  /\ ls' = PersistEffect(c, items[c], checkers[c])
  /\ UNCHANGED <<viewVars, callVars, everIn, hasSupabase, backendVars, loadVars, items, checkers, settingVars,
                 modalVars, queue, tasks, now, ops, ghostVars>>


\* ------------------------------------------------ suspended handlers
\* kind: the handler; pc: the await it is suspended at, or its outcome;
\* applied: the handler's setItems / setCheckers call has been made;
\* tag: the number of the user action that started it; swallowed: an error
\* of one of its requests was dropped; delta: the argument of adjustQty;
\* base: the roster in the client's state when a roster handler started
Task(kind, tpc, item, id, next, applied) ==
  [kind |-> kind, pc |-> tpc, item |-> item, id |-> id, next |-> next,
   toDel |-> <<>>, toAdd |-> <<>>, applied |-> applied, tag |-> ops + 1,
   swallowed |-> FALSE, delta |-> 0, base |-> <<>>]

RosterTask(c, kind, next) ==
  [Task(kind, "select", None, 0, next, FALSE) EXCEPT !.base = checkers[c]]

CanStart(c) == Len(tasks[c]) < MaxInFlight
Spawn(c, t) == tasks' = [tasks EXCEPT ![c] = Append(tasks[c], t)]
DropTask(c, k) ==
  [tasks EXCEPT ![c] = SubSeq(tasks[c], 1, k - 1) \o SubSeq(tasks[c], k + 1, Len(tasks[c]))]
SetTask(c, k, t) == [tasks EXCEPT ![c][k] = t]

\* the quick-check modal covers the page while it is shown
ModalShown(c) == checkOpen[c] /\ checkTarget[c] # None

\* the user acts once the loading banner is gone; the clients are
\* interchangeable, so the first user action is taken to be c1's
UserMay(c) == ops < MaxOps /\ ~loading[c] /\ (c # "c1" => ops > 0)

\* the clock readings a call of nowISO can return at or after instant t
Readings(t) == t..Min2(t + 1, MaxClock)

\* watch after client c has changed record id itself, other than by the
\* write tagged tag
Touched(c, id) ==
  IF watch[c] # None /\ watch[c][1].id = id THEN [watch EXCEPT ![c] = None] ELSE watch

\* dbUpsertItem / dbDeleteItem without a backend
dbUpsertItemLocal(stored, it) ==
  LET its == OrElse(stored, <<>>)
  IN Some(IF \E i \in 1..Len(its) : its[i].id = it.id
          THEN [i \in 1..Len(its) |-> IF its[i].id = it.id THEN it ELSE its[i]]
          ELSE Append(its, it))
dbDeleteItemLocal(stored, id) ==
  Some(SelectSeq(OrElse(stored, <<>>), LAMBDA x : x.id # id))

\* ------------------------------------------------------------ adjustQty
AdjustedNoClamp(i, delta, auto, low, t) ==
  [i EXCEPT !.qty = i.qty + delta,
            !.status = IF auto THEN computeStatus(i.qty + delta, low) ELSE i.status,
            !.lastUpdated = Some(t)]

\* the record both the updater and toSave build from a record i
Adjusted(i, delta, auto, low, t) ==
  [i EXCEPT !.qty = Max2(0, i.qty + delta),
            !.status = IF auto THEN computeStatus(Max2(0, i.qty + delta), low) ELSE i.status,
            !.lastUpdated = Some(t)]

AdjustQtyWriteFirst(c, id, delta) ==
  /\ UserMay(c) /\ ~ModalShown(c)
  /\ id \in IdsOf(rendered[c].items)
  /\ hasSupabase /\ CanStart(c)
  /\ \A i \in 1..Len(items[c]) : items[c][i].id = id => items[c][i].qty + delta <= MaxQty
  /\ Find(rendered[c].items, id)[1].qty + delta <= MaxQty
  /\ Spawn(c, [Task("adjust", "upsert",
                    Some(Adjusted(Find(rendered[c].items, id)[1], delta, autoStatus[c],
                                  lowThreshold[c], now)),
                    id, <<>>, FALSE) EXCEPT !.delta = delta])
  /\ ops' = ops + 1
  /\ UNCHANGED <<viewVars, callVars, everIn, hasSupabase, backendVars, loadVars, items, checkers, rendered, ls,
                 settingVars, modalVars, queue, now, ghostVars>>

AdjustQty(c, id, delta) ==
  /\ UserMay(c) /\ ~ModalShown(c)
  /\ id \in IdsOf(rendered[c].items)
  /\ hasSupabase => CanStart(c)
  /\ \A i \in 1..Len(items[c]) : items[c][i].id = id => items[c][i].qty + delta <= MaxQty
  /\ Find(rendered[c].items, id)[1].qty + delta <= MaxQty
  /\ \E tLocal \in Readings(now) : \E tSave \in Readings(tLocal) :
       LET upd(i) == IF i.id # id THEN i
                     ELSE Adjusted(i, delta, autoStatus[c], lowThreshold[c], tLocal)
           next == Map(items[c], upd)
           cur == Find(rendered[c].items, id)[1]
           toSave == Adjusted(cur, delta, autoStatus[c], lowThreshold[c], tSave)
       IN /\ items' = [items EXCEPT ![c] = next]
          /\ rendered' = Flushed(c, next, checkers[c])
          /\ now' = tSave
          /\ IF hasSupabase
             THEN /\ Spawn(c, [Task("adjust", "upsert", Some(toSave), id, <<>>, TRUE)
                               EXCEPT !.delta = delta])
                  /\ ls' = ls
             ELSE /\ tasks' = tasks
                  /\ ls' = PersistEffect(c, next, checkers[c])
  /\ ops' = ops + 1
  /\ watch' = [watch EXCEPT ![c] =
        IF id \in IdsOf(items[c]) THEN Some([id |-> id, tag |-> ops + 1]) ELSE None]
  /\ UNCHANGED <<viewVars, callVars, everIn, hasSupabase, backendVars, loadVars, checkers, settingVars, modalVars,
                 queue, rejected, lastEv>>

\* ---------------------------------------------------------- quick check
OpenQuickCheck(c, id) ==
  /\ UserMay(c) /\ ~ModalShown(c)
  /\ id \in IdsOf(rendered[c].items)
  /\ LET it == Find(rendered[c].items, id)[1]
     IN /\ checkTarget' = [checkTarget EXCEPT ![c] = Some(it)]
        /\ checkSelected' = [checkSelected EXCEPT ![c] = Dedup(OrElse(it.checkedBy, <<>>))]
        /\ checkOpen' = [checkOpen EXCEPT ![c] = TRUE]
  /\ ops' = ops + 1
  /\ UNCHANGED <<viewVars, callVars, everIn, hasSupabase, backendVars, ls, loadVars, items, checkers, rendered,
                 settingVars, queue, tasks, now, ghostVars>>

\* a toggle that accepts any name, in the roster or not
ToggleCheckerAny(c, name) ==
  /\ UserMay(c) /\ ModalShown(c)
  /\ checkSelected' = [checkSelected EXCEPT ![c] =
        IF name \in Range(checkSelected[c])
        THEN SelectSeq(checkSelected[c], LAMBDA n : n # name)
        ELSE Append(checkSelected[c], name)]
  /\ ops' = ops + 1
  /\ UNCHANGED <<viewVars, callVars, everIn, hasSupabase, backendVars, ls, loadVars, items, checkers, rendered,
                 settingVars, checkOpen, checkTarget, queue, tasks, now, ghostVars>>

ToggleChecker(c, name) ==
  /\ UserMay(c) /\ ModalShown(c)
  /\ name \in Range(rendered[c].checkers)
  /\ checkSelected' = [checkSelected EXCEPT ![c] =
        IF name \in Range(checkSelected[c])
        THEN SelectSeq(checkSelected[c], LAMBDA n : n # name)
        ELSE Append(checkSelected[c], name)]
  /\ ops' = ops + 1
  /\ UNCHANGED <<viewVars, callVars, everIn, hasSupabase, backendVars, ls, loadVars, items, checkers, rendered,
                 settingVars, checkOpen, checkTarget, queue, tasks, now, ghostVars>>

\* the backdrop and the cancel button: setCheckOpen(false)
CancelQuickCheck(c) ==
  /\ UserMay(c) /\ ModalShown(c)
  /\ checkOpen' = [checkOpen EXCEPT ![c] = FALSE]
  /\ ops' = ops + 1
  /\ UNCHANGED <<viewVars, callVars, everIn, hasSupabase, backendVars, ls, loadVars, items, checkers, rendered,
                 settingVars, checkTarget, checkSelected, queue, tasks, now, ghostVars>>

\* what confirmQuickCheck does once dbUpsertItem(updated) has resolved
ConfirmApply(c, updated) ==
  /\ items' = [items EXCEPT ![c] =
        Map(items[c], LAMBDA i : IF i.id = updated.id THEN updated ELSE i)]
  /\ checkOpen' = [checkOpen EXCEPT ![c] = FALSE]
  /\ checkTarget' = [checkTarget EXCEPT ![c] = None]
  /\ watch' = Touched(c, updated.id)

ConfirmQuickCheck(c) ==
  /\ UserMay(c) /\ ModalShown(c)
  /\ hasSupabase => CanStart(c)
  /\ \E t \in Readings(now) :
       LET updated == [checkTarget[c][1] EXCEPT !.checkedBy = Some(checkSelected[c]),
                                                !.lastUpdated = Some(t)]
       IN /\ now' = t
          /\ IF hasSupabase
             THEN /\ Spawn(c, Task("confirm", "upsert", Some(updated), updated.id, <<>>, FALSE))
                  /\ UNCHANGED <<items, checkOpen, checkTarget, ls, watch>>
             ELSE /\ ls' = [ls EXCEPT ![c].items = dbUpsertItemLocal(ls[c].items, updated)]
                  /\ ConfirmApply(c, updated)
                  /\ tasks' = tasks
  /\ ops' = ops + 1
  /\ UNCHANGED <<viewVars, callVars, everIn, hasSupabase, backendVars, loadVars, checkers, rendered, settingVars,
                 checkSelected, queue, rejected, lastEv>>

\* ---------------------------------------------------------------- remove
RemoveApply(c, id) ==
  /\ items' = [items EXCEPT ![c] = SelectSeq(items[c], LAMBDA i : i.id # id)]
  /\ watch' = Touched(c, id)

Remove(c, id) ==
  /\ UserMay(c) /\ ~ModalShown(c)
  /\ id \in IdsOf(rendered[c].items)
  /\ hasSupabase => CanStart(c)
  /\ IF hasSupabase
     THEN /\ Spawn(c, Task("remove", "delete", None, id, <<>>, FALSE))
          /\ UNCHANGED <<items, ls, watch>>
     ELSE /\ ls' = [ls EXCEPT ![c].items = dbDeleteItemLocal(ls[c].items, id)]
          /\ RemoveApply(c, id)
          /\ tasks' = tasks
  /\ ops' = ops + 1
  /\ UNCHANGED <<viewVars, callVars, everIn, hasSupabase, backendVars, loadVars, checkers, rendered, settingVars,
                 modalVars, queue, now, rejected, lastEv>>

\* ------------------------------------------------ addMember / removeMember
\* addMember with an exact comparison of the names
AddMemberExact(c, name) ==
  /\ UserMay(c) /\ ~ModalShown(c)
  /\ hasSupabase => CanStart(c)
  /\ LET dup == name \in Range(rendered[c].checkers)
         next == Append(rendered[c].checkers, name)
     IN IF dup THEN UNCHANGED <<tasks, ls, checkers>>
        ELSE IF hasSupabase
        THEN /\ Spawn(c, RosterTask(c, "addMember", next))
             /\ UNCHANGED <<ls, checkers>>
        ELSE /\ ls' = [ls EXCEPT ![c].checkers = Some(next)]
             /\ checkers' = [checkers EXCEPT ![c] = next]
             /\ tasks' = tasks
  /\ ops' = ops + 1
  /\ Remembered(c)
  /\ UNCHANGED <<viewVars, callVars, hasSupabase, backendVars, loadVars, items, rendered, settingVars,
                 modalVars, queue, now, ghostVars>>

AddMember(c, name) ==
  /\ UserMay(c) /\ ~ModalShown(c)
  /\ hasSupabase => CanStart(c)
  /\ LET dup == \E i \in 1..Len(rendered[c].checkers) :
                   toLowerCase(rendered[c].checkers[i]) = toLowerCase(name)
         next == Append(rendered[c].checkers, name)
     IN IF dup THEN UNCHANGED <<tasks, ls, checkers>>
        ELSE IF hasSupabase
        THEN /\ Spawn(c, RosterTask(c, "addMember", next))
             /\ UNCHANGED <<ls, checkers>>
        ELSE /\ ls' = [ls EXCEPT ![c].checkers = Some(next)]
             /\ checkers' = [checkers EXCEPT ![c] = next]
             /\ tasks' = tasks
  /\ ops' = ops + 1
  /\ Remembered(c)
  /\ UNCHANGED <<viewVars, callVars, hasSupabase, backendVars, loadVars, items, rendered, settingVars,
                 modalVars, queue, now, ghostVars>>

RemoveMember(c, name) ==
  /\ UserMay(c) /\ ~ModalShown(c)
  /\ name \in Range(rendered[c].checkers)
  /\ hasSupabase => CanStart(c)
  /\ LET next == SelectSeq(rendered[c].checkers, LAMBDA n : n # name)
     IN IF hasSupabase
        THEN /\ Spawn(c, RosterTask(c, "removeMember", next))
             /\ UNCHANGED <<ls, checkers>>
        ELSE /\ ls' = [ls EXCEPT ![c].checkers = Some(next)]
             /\ checkers' = [checkers EXCEPT ![c] = next]
             /\ tasks' = tasks
  /\ ops' = ops + 1
  /\ Remembered(c)
  /\ UNCHANGED <<viewVars, callVars, hasSupabase, backendVars, loadVars, items, rendered, settingVars,
                 modalVars, queue, now, ghostVars>>

\* --------------------------------------------------------------- settings
SetAutoStatus(c, b) ==
  /\ UserMay(c) /\ ~ModalShown(c)
  /\ b # autoStatus[c]
  /\ autoStatus' = [autoStatus EXCEPT ![c] = b]
  /\ ops' = ops + 1
  /\ UNCHANGED <<viewVars, callVars, everIn, hasSupabase, backendVars, ls, loadVars, items, checkers, rendered,
                 lowThreshold, modalVars, queue, tasks, now, ghostVars>>

SetLowThresholdRaw(c, v) ==
  /\ UserMay(c) /\ ~ModalShown(c)
  /\ v # lowThreshold[c]
  /\ lowThreshold' = [lowThreshold EXCEPT ![c] = v]
  /\ ops' = ops + 1
  /\ UNCHANGED <<viewVars, callVars, everIn, hasSupabase, backendVars, ls, loadVars, items, checkers, rendered,
                 autoStatus, modalVars, queue, tasks, now, ghostVars>>

SetLowThreshold(c, v) ==
  /\ UserMay(c) /\ ~ModalShown(c)
  /\ Max2(1, v) # lowThreshold[c]
  /\ lowThreshold' = [lowThreshold EXCEPT ![c] = Max2(1, v)]
  /\ ops' = ops + 1
  /\ UNCHANGED <<viewVars, callVars, everIn, hasSupabase, backendVars, ls, loadVars, items, checkers, rendered,
                 autoStatus, modalVars, queue, tasks, now, ghostVars>>

\* ------------------------------------- the backend answers a request
Awaiting(c, k, kinds, tpc) ==
  /\ k \in 1..Len(tasks[c])
  /\ tasks[c][k].kind \in kinds
  /\ tasks[c][k].pc = tpc

RosterKinds == {"addMember", "removeMember"}

\* supabase.from("items").upsert(row) of dbUpsertItem succeeds; adjustQty
\* has nothing left to do after its await, confirmQuickCheck has
DbUpsertItem(c, k) ==
  /\ Awaiting(c, k, {"adjust", "confirm"}, "upsert")
  /\ UpsertRow(toRow(tasks[c][k].item[1]), <<c, tasks[c][k].tag>>)
  /\ tasks' = IF tasks[c][k].kind = "adjust" THEN DropTask(c, k)
              ELSE SetTask(c, k, [tasks[c][k] EXCEPT !.pc = "ok"])
  /\ UNCHANGED <<viewVars, callVars, everIn, hasSupabase, dbCheckers, ls, loadVars, items, checkers, rendered,
                 settingVars, modalVars, now, ops, ghostVars>>

\* a delete that fails when no row has the id
DbDeleteItemStrict(c, k) ==
  /\ Awaiting(c, k, {"remove"}, "delete")
  /\ LET id == tasks[c][k].id
     IN IF dbItems[id] # None
        THEN /\ CanBroadcast(1)
             /\ dbItems' = [dbItems EXCEPT ![id] = None]
             /\ Broadcast(<<ItemDeleted(id, <<c, tasks[c][k].tag>>)>>)
             /\ tasks' = SetTask(c, k, [tasks[c][k] EXCEPT !.pc = "ok"])
        ELSE /\ UNCHANGED <<dbItems, queue>>
             /\ tasks' = SetTask(c, k, [tasks[c][k] EXCEPT !.pc = "err"])
  /\ UNCHANGED <<viewVars, callVars, everIn, hasSupabase, dbCheckers, ls, loadVars, items, checkers, rendered,
                 settingVars, modalVars, now, ops, ghostVars>>

\* supabase.from("items").delete().eq("id", id) of dbDeleteItem succeeds
DbDeleteItem(c, k) ==
  /\ Awaiting(c, k, {"remove"}, "delete")
  /\ LET id == tasks[c][k].id
     IN IF dbItems[id] # None
        THEN /\ CanBroadcast(1)
             /\ dbItems' = [dbItems EXCEPT ![id] = None]
             /\ Broadcast(<<ItemDeleted(id, <<c, tasks[c][k].tag>>)>>)
        ELSE UNCHANGED <<dbItems, queue>>
  /\ tasks' = SetTask(c, k, [tasks[c][k] EXCEPT !.pc = "ok"])
  /\ UNCHANGED <<viewVars, callVars, everIn, hasSupabase, dbCheckers, ls, loadVars, items, checkers, rendered,
                 settingVars, modalVars, now, ops, ghostVars>>

\* the select of dbSetCheckers answers; toDel and toAdd are computed
DbSelectCheckers(c, k) ==
  /\ Awaiting(c, k, RosterKinds, "select")
  /\ LET list == tasks[c][k].next
         toDel == SelectSeq(SortedNames(dbCheckers), LAMBDA x : x \notin Range(list))
         toAdd == SelectSeq(Dedup(list), LAMBDA x : x \notin dbCheckers)
     IN tasks' = SetTask(c, k, [tasks[c][k] EXCEPT
                    !.toDel = toDel, !.toAdd = toAdd,
                    !.pc = IF Len(toDel) # 0 THEN "cdelete"
                           ELSE IF Len(toAdd) # 0 THEN "cinsert" ELSE "ok"])
  /\ UNCHANGED <<viewVars, callVars, everIn, hasSupabase, backendVars, ls, loadVars, items, checkers, rendered,
                 settingVars, modalVars, queue, now, ops, ghostVars>>

\* checkers.delete().in("name", toDel)
DbDeleteCheckers(c, k) ==
  /\ Awaiting(c, k, RosterKinds, "cdelete")
  /\ LET gone == SelectSeq(tasks[c][k].toDel, LAMBDA x : x \in dbCheckers)
     IN /\ CanBroadcast(Len(gone))
        /\ dbCheckers' = dbCheckers \ Range(gone)
        /\ Broadcast([i \in 1..Len(gone) |->
                        CheckerEvent("DELETE", gone[i], <<c, tasks[c][k].tag>>)])
  /\ tasks' = SetTask(c, k, [tasks[c][k] EXCEPT
                 !.pc = IF Len(tasks[c][k].toAdd) # 0 THEN "cinsert" ELSE "ok"])
  /\ UNCHANGED <<viewVars, callVars, everIn, hasSupabase, dbItems, ls, loadVars, items, checkers, rendered,
                 settingVars, modalVars, now, ops, ghostVars>>

\* checkers.insert(toAdd): one statement, refused as a whole when a name
\* is already a key of the table; the handler never looks at the error
DbInsertCheckers(c, k) ==
  /\ Awaiting(c, k, RosterKinds, "cinsert")
  /\ LET new == tasks[c][k].toAdd
     IN IF Range(new) \cap dbCheckers # {}
        THEN /\ UNCHANGED <<dbCheckers, queue>>
             /\ tasks' = SetTask(c, k, [tasks[c][k] EXCEPT !.pc = "ok", !.swallowed = TRUE])
        ELSE /\ CanBroadcast(Len(new))
             /\ dbCheckers' = dbCheckers \cup Range(new)
             /\ Broadcast([i \in 1..Len(new) |->
                             CheckerEvent("INSERT", new[i], <<c, tasks[c][k].tag>>)])
             /\ tasks' = SetTask(c, k, [tasks[c][k] EXCEPT !.pc = "ok"])
  /\ UNCHANGED <<viewVars, callVars, everIn, hasSupabase, dbItems, ls, loadVars, items, checkers, rendered,
                 settingVars, modalVars, now, ops, ghostVars>>

\* a request is rejected.  dbUpsertItem, dbDeleteItem and the select of
\* dbSetCheckers throw the error; the delete and the insert of
\* dbSetCheckers drop theirs and go on
DbReject(c, k) ==
  /\ k \in 1..Len(tasks[c])
  /\ tasks[c][k].pc \in {"upsert", "delete", "select", "cdelete", "cinsert"}
  /\ LET t == tasks[c][k]
     IN tasks' = SetTask(c, k,
          CASE t.pc \in {"upsert", "delete", "select"} -> [t EXCEPT !.pc = "err"]
            [] t.pc = "cdelete" ->
                 [t EXCEPT !.pc = IF Len(t.toAdd) # 0 THEN "cinsert" ELSE "ok",
                           !.swallowed = TRUE]
            [] OTHER -> [t EXCEPT !.pc = "ok", !.swallowed = TRUE])
  /\ UNCHANGED <<viewVars, callVars, everIn, hasSupabase, backendVars, ls, loadVars, items, checkers, rendered,
                 settingVars, modalVars, queue, now, ops, ghostVars>>

\* ------------------------------------------- the handler is resumed
ResumeConfirm(c, k) ==
  /\ Awaiting(c, k, {"confirm"}, "ok")
  /\ ConfirmApply(c, tasks[c][k].item[1])
  /\ tasks' = DropTask(c, k)
  /\ UNCHANGED <<viewVars, callVars, everIn, hasSupabase, backendVars, ls, loadVars, checkers, rendered,
                 settingVars, checkSelected, queue, now, ops, rejected, lastEv>>

ResumeRemove(c, k) ==
  /\ Awaiting(c, k, {"remove"}, "ok")
  /\ RemoveApply(c, tasks[c][k].id)
  /\ tasks' = DropTask(c, k)
  /\ UNCHANGED <<viewVars, callVars, everIn, hasSupabase, backendVars, ls, loadVars, checkers, rendered,
                 settingVars, modalVars, queue, now, ops, rejected, lastEv>>

\* a resumption that also strikes the names no longer in the roster from
\* the records
ResumeSetCheckersScrub(c, k) ==
  /\ Awaiting(c, k, RosterKinds, "ok")
  /\ checkers' = [checkers EXCEPT ![c] = tasks[c][k].next]
  /\ items' = [items EXCEPT ![c] =
        [i \in 1..Len(items[c]) |->
           [items[c][i] EXCEPT !.checkedBy =
              IF @ = None THEN None
              ELSE Some(SelectSeq(@[1], LAMBDA n : n \in Range(tasks[c][k].next)))]]]
  /\ tasks' = DropTask(c, k)
  /\ Remembered(c)
  /\ UNCHANGED <<viewVars, callVars, hasSupabase, backendVars, ls, loadVars, rendered,
                 settingVars, modalVars, queue, now, ops, ghostVars>>

\* addMember / removeMember after dbSetCheckers(next): setCheckers(next)
ResumeSetCheckers(c, k) ==
  /\ Awaiting(c, k, RosterKinds, "ok")
  /\ checkers' = [checkers EXCEPT ![c] = tasks[c][k].next]
  /\ tasks' = DropTask(c, k)
  /\ Remembered(c)
  /\ UNCHANGED <<viewVars, callVars, hasSupabase, backendVars, ls, loadVars, items, rendered,
                 settingVars, modalVars, queue, now, ops, ghostVars>>

HandlerRejectsContinues(c, k) ==
  /\ k \in 1..Len(tasks[c])
  /\ tasks[c][k].pc = "err"
  /\ rejected' = [rejected EXCEPT ![c] =
        rejected[c] \cup {[kind |-> tasks[c][k].kind, applied |-> tasks[c][k].applied]}]
  /\ tasks' = DropTask(c, k)
  /\ items' = [items EXCEPT ![c] =
        CASE tasks[c][k].kind = "remove" ->
               SelectSeq(items[c], LAMBDA i : i.id # tasks[c][k].id)
          [] tasks[c][k].kind = "confirm" ->
               Map(items[c], LAMBDA i : IF i.id = tasks[c][k].id THEN tasks[c][k].item[1] ELSE i)
          [] OTHER -> items[c]]
  /\ checkers' = [checkers EXCEPT ![c] =
        IF tasks[c][k].kind \in RosterKinds THEN tasks[c][k].next ELSE checkers[c]]
  /\ Remembered(c)
  /\ UNCHANGED <<viewVars, callVars, hasSupabase, backendVars, ls, loadVars, rendered,
                 settingVars, modalVars, queue, now, ops, lastEv, watch>>

\* the awaited call threw: no handler has a catch, the rest of the handler
\* is skipped and the rejection is left to the runtime to report
HandlerRejects(c, k) ==
  /\ k \in 1..Len(tasks[c])
  /\ tasks[c][k].pc = "err"
  /\ rejected' = [rejected EXCEPT ![c] =
        rejected[c] \cup {[kind |-> tasks[c][k].kind, applied |-> tasks[c][k].applied]}]
  /\ tasks' = DropTask(c, k)
  /\ UNCHANGED <<viewVars, callVars, everIn, hasSupabase, backendVars, ls, loadVars, items, checkers, rendered,
                 settingVars, modalVars, queue, now, ops, lastEv, watch>>

\* ------------------------------------------------ realtime handlers
Incoming(c, table, op) ==
  /\ queue[c] # <<>>
  /\ Head(queue[c]).table = table
  /\ Head(queue[c]).op = op

Instant(o) == OrElse(o, 0)

\* the event at the head of c's queue stems from c's own last write of the
\* record, and nothing else has touched the record locally since
IsCleanEcho(c) ==
  /\ watch[c] # None
  /\ Head(queue[c]).by = <<c, watch[c][1].tag>>
  /\ Head(queue[c]).id = watch[c][1].id

\* INSERT and UPDATE on items: setItems(prev => mergeOne(prev, rowToItem(r)))
OnItemUpsert(c) ==
  LET it == rowToItem(Head(queue[c]).row[1])
      old == Find(items[c], it.id)
  IN /\ items' = [items EXCEPT ![c] = mergeOne(items[c], it)]
     /\ lastEv' = [lastEv EXCEPT ![c] =
           [op |-> Head(queue[c]).op, id |-> it.id, existed |-> old # None,
            stale |-> old # None /\ Instant(old[1].lastUpdated) > Instant(it.lastUpdated),
            same |-> old = Some(it),
            kept |-> old # None /\ old[1].qty = it.qty /\ old[1].status = it.status,
            echo |-> IsCleanEcho(c)]]
     /\ watch' = Touched(c, it.id)
     /\ queue' = [queue EXCEPT ![c] = Tail(queue[c])]

OnItemInsert(c) ==
  /\ Incoming(c, "items", "INSERT")
  /\ OnItemUpsert(c)
  /\ UNCHANGED <<viewVars, callVars, everIn, hasSupabase, backendVars, ls, loadVars, checkers, rendered,
                 settingVars, modalVars, tasks, now, ops, rejected>>

OnItemUpdate(c) ==
  /\ Incoming(c, "items", "UPDATE")
  /\ OnItemUpsert(c)
  /\ UNCHANGED <<viewVars, callVars, everIn, hasSupabase, backendVars, ls, loadVars, checkers, rendered,
                 settingVars, modalVars, tasks, now, ops, rejected>>

\* a filter that drops the first record, whatever its id
dropFirst(prev, id) == IF prev = <<>> THEN prev ELSE Tail(prev)

\* prev.filter(i => i.id !== id)
dropById(prev, id) == SelectSeq(prev, LAMBDA i : i.id # id)

OnItemDelete(c) ==
  /\ Incoming(c, "items", "DELETE")
  /\ LET id == Head(queue[c]).id
     IN /\ items' = [items EXCEPT ![c] = dropById(items[c], id)]
        /\ lastEv' = [lastEv EXCEPT ![c] =
              [op |-> "DELETE", id |-> id, existed |-> id \in IdsOf(items[c]),
               stale |-> FALSE, same |-> id \notin IdsOf(items[c]),
               kept |-> id \notin IdsOf(items[c]), echo |-> FALSE]]
        /\ watch' = Touched(c, id)
  /\ queue' = [queue EXCEPT ![c] = Tail(queue[c])]
  /\ UNCHANGED <<viewVars, callVars, everIn, hasSupabase, backendVars, ls, loadVars, checkers, rendered,
                 settingVars, modalVars, tasks, now, ops, rejected>>

\* a checker INSERT handler that compares the names without letter case
OnCheckerInsertAnyCase(c) ==
  /\ Incoming(c, "checkers", "INSERT")
  /\ checkers' = [checkers EXCEPT ![c] =
        IF \E m \in Range(checkers[c]) : toLowerCase(m) = toLowerCase(Head(queue[c]).name)
        THEN checkers[c] ELSE Append(checkers[c], Head(queue[c]).name)]
  /\ queue' = [queue EXCEPT ![c] = Tail(queue[c])]
  /\ Remembered(c)
  /\ UNCHANGED <<viewVars, callVars, hasSupabase, backendVars, ls, loadVars, items, rendered,
                 settingVars, modalVars, tasks, now, ops, ghostVars>>

OnCheckerInsert(c) ==
  /\ Incoming(c, "checkers", "INSERT")
  /\ checkers' = [checkers EXCEPT ![c] = Dedup(Append(checkers[c], Head(queue[c]).name))]
  /\ queue' = [queue EXCEPT ![c] = Tail(queue[c])]
  /\ Remembered(c)
  /\ UNCHANGED <<viewVars, callVars, hasSupabase, backendVars, ls, loadVars, items, rendered,
                 settingVars, modalVars, tasks, now, ops, ghostVars>>

OnCheckerDelete(c) ==
  /\ Incoming(c, "checkers", "DELETE")
  /\ checkers' = [checkers EXCEPT ![c] =
        SelectSeq(checkers[c], LAMBDA n : n # Head(queue[c]).name)]
  /\ queue' = [queue EXCEPT ![c] = Tail(queue[c])]
  /\ UNCHANGED <<viewVars, callVars, everIn, hasSupabase, backendVars, ls, loadVars, items, rendered,
                 settingVars, modalVars, tasks, now, ops, ghostVars>>

\* ---------------------------------------------------- the specification
Next ==
  \E c \in Clients :
    \/ DbLoadAll(c)
    \/ DbLoadAllFail(c)
    \/ Bootstrap(c)
    \/ BootstrapFail(c)
    \/ LoadFinish(c)
    \/ Render(c)
    \/ \E id \in ActIds, delta \in {-1, 1} : AdjustQty(c, id, delta)
    \/ \E id \in ActIds : OpenQuickCheck(c, id)
    \/ \E n \in Range(NameOrder) : ToggleChecker(c, n)
    \/ CancelQuickCheck(c)
    \/ ConfirmQuickCheck(c)
    \/ \E id \in ActIds : Remove(c, id)
    \/ \E n \in MemberInputs : AddMember(c, n)
    \/ \E n \in Range(NameOrder) : RemoveMember(c, n)
    \/ \E b \in BOOLEAN : SetAutoStatus(c, b)
    \/ \E v \in 0..MaxThreshold : SetLowThreshold(c, v)
    \/ \E k \in 1..MaxInFlight :
         \/ DbUpsertItem(c, k)
         \/ DbDeleteItem(c, k)
         \/ DbSelectCheckers(c, k)
         \/ DbDeleteCheckers(c, k)
         \/ DbInsertCheckers(c, k)
         \/ DbReject(c, k)
         \/ ResumeConfirm(c, k)
         \/ ResumeRemove(c, k)
         \/ ResumeSetCheckers(c, k)
         \/ HandlerRejects(c, k)
    \/ OnItemInsert(c)
    \/ OnItemUpdate(c)
    \/ OnItemDelete(c)
    \/ OnCheckerInsert(c)
    \/ OnCheckerDelete(c)

Spec == Init /\ [][Next]_vars

\* =============================================================== claims
\* a handler of client c has just dispatched its first request
Dispatched(c) == Len(tasks'[c]) > Len(tasks[c])
NewTask(c) == tasks'[c][Len(tasks'[c])]

\* the step applies an adjustment of record id to c's collection
AdjustShows(c, id) ==
  \E delta \in {-1, 1}, t \in 1..MaxClock :
    items'[c] = Map(items[c], LAMBDA i : IF i.id = id
                      THEN Adjusted(i, delta, autoStatus[c], lowThreshold[c], t) ELSE i)

\* after the step, c's local state shows the mutation that handler t, a
\* confirmation, a delete or a roster update, stands for
MutationShows(c, t) ==
  CASE t.kind = "confirm" -> t.id \in IdsOf(items[c]) => Find(items'[c], t.id) = Some(t.item[1])
    [] t.kind = "remove"  -> t.id \notin IdsOf(items'[c])
    [] OTHER              -> checkers'[c] = t.next

\* handler k of client c ends with this step, from position tpc
Ends(c, k, tpc) ==
  /\ k \in 1..Len(tasks[c])
  /\ tasks[c][k].pc = tpc
  /\ tasks'[c] = DropTask(c, k)[c]

Normal(its) ==
  {[its[i] EXCEPT !.checkedBy = Some(OrElse(its[i].checkedBy, <<>>))] : i \in 1..Len(its)}

\* every load and every write succeeded, nothing is in flight or undelivered
Settled ==
  \A c \in Clients :
    pc[c] = "ready" /\ tasks[c] = <<>> /\ queue[c] = <<>> /\ rejected[c] = {}

\* C3 as stated: once every write has succeeded and every event has been
\* delivered and handled, each client that loaded successfully holds the
\* same records as the backend items table.
C3_SettledClientsMatchBackend ==
  Settled => \A c \in Clients : Normal(items[c]) = Normal(DbRowsAsItems)

\* C4 as stated: a client whose initial load failed shows the error, keeps
\* its mutations in localStorage and sends no write to the backend.
C4_FailedLoadIsLocalOnly ==
  \A c \in Clients :
    pc[c] = "failed" =>
      /\ errorMsg[c] # None
      /\ tasks[c] = <<>>
      /\ items[c] # SEED => ls[c].items # None

\* client c handles the record-upserted event at the head of its queue
UpsertHandled(c) ==
  /\ queue[c] # <<>>
  /\ Head(queue[c]).table = "items"
  /\ Head(queue[c]).op \in {"INSERT", "UPDATE"}
  /\ queue'[c] = Tail(queue[c])

Incomer(c) == rowToItem(Head(queue[c]).row[1])

\* C5: handling a record-upserted event replaces the record of that id by
\* the incoming one, every field of it, or appends the incoming record when
\* the id is absent; exactly one record has the id afterwards and the other
\* records are untouched.
C5_UpsertReplacesOrAdds ==
  [][\A c \in Clients :
       UpsertHandled(c) =>
         LET it == Incomer(c)
         IN /\ Cardinality({i \in 1..Len(items'[c]) : items'[c][i].id = it.id}) = 1
            /\ Find(items'[c], it.id) = Some(it)
            /\ IF it.id \in IdsOf(items[c])
               THEN /\ Len(items'[c]) = Len(items[c])
                    /\ \A i \in 1..Len(items[c]) :
                         items[c][i].id # it.id => items'[c][i] = items[c][i]
               ELSE items'[c] = Append(items[c], it)]_vars

\* one client has had a record replaced by a differing event, another has
\* had a record added by one
C5_Witness ==
  \E c, d \in Clients :
    /\ lastEv[c].op \in {"INSERT", "UPDATE"} /\ lastEv[c].existed /\ ~lastEv[c].same
    /\ lastEv[d].op \in {"INSERT", "UPDATE"} /\ ~lastEv[d].existed

\* C6: applying the event just handled a second time leaves the collection
\* as the first application left it.
C6_UpsertTwiceIsOnce ==
  [][\A c \in Clients :
       UpsertHandled(c) => mergeOne(items'[c], Incomer(c)) = items'[c]]_vars

\* an event that changed the collection has been handled
C6_Witness ==
  \E c \in Clients :
    /\ lastEv[c].op \in {"INSERT", "UPDATE"} /\ ~lastEv[c].same
    /\ Find(items[c], lastEv[c].id) # None

C8_OwnEchoChangesNothing ==
  \A c \in Clients : lastEv[c].echo => lastEv[c].kept

\* C9: no two records of a client's collection have the same id.
C9_IdsUnique ==
  \A c \in Clients : \A i, j \in 1..Len(items[c]) :
    items[c][i].id = items[c][j].id => i = j

\* an update event for an id already in the collection has been handled
C9_Witness ==
  \E c \in Clients : lastEv[c].op = "UPDATE" /\ lastEv[c].existed

\* C10 as stated: while auto-derivation is on, every record's status is
\* computeStatus of its quantity and the configured threshold.
C10_StatusIsDerived ==
  \A c \in Clients :
    autoStatus[c] =>
      \A i \in 1..Len(items[c]) :
        items[c][i].status = computeStatus(items[c][i].qty, lowThreshold[c])


\* C11: every record's quantity is >= 0, in every client's collection, in
\* every backend row, in every change event under way and in every row a
\* handler is about to write.
C11_QtyNeverNegative ==
  /\ \A c \in Clients : \A i \in 1..Len(items[c]) : items[c][i].qty >= 0
  /\ \A id \in Ids : dbItems[id] # None => dbItems[id][1].qty >= 0
  /\ \A c \in Clients : \A i \in 1..Len(queue[c]) :
       queue[c][i].row # None => queue[c][i].row[1].qty >= 0
  /\ \A c \in Clients : \A k \in 1..Len(tasks[c]) :
       tasks[c][k].item # None => tasks[c][k].item[1].qty >= 0

\* a record has been adjusted down to 0, at a client and in the backend
C11_Witness ==
  \E c \in Clients : \E id \in Ids :
    /\ dbItems[id] # None /\ dbItems[id][1].qty = 0 /\ dbItems[id][1].last_updated # None
    /\ Find(items[c], id) # None
    /\ Find(items[c], id)[1].qty = 0 /\ Find(items[c], id)[1].lastUpdated # None

\* C12: adjustQty(id, delta) sets the record's quantity in local state to
\* max(0, current + delta), current being the quantity local state holds at
\* that moment; the status becomes computeStatus(new quantity, threshold)
\* with auto-status on and stays with auto-status off; lastUpdated is
\* refreshed; nothing else of the collection changes.
C12_AdjustClampsAndDerives ==
  [][\A c \in Clients :
       Dispatched(c) /\ NewTask(c).kind = "adjust" =>
         /\ Len(items'[c]) = Len(items[c])
         /\ \A i \in 1..Len(items[c]) :
              LET old == items[c][i]
                  new == items'[c][i]
                  qty == IF old.qty + NewTask(c).delta >= 0
                         THEN old.qty + NewTask(c).delta ELSE 0
              IN IF old.id # NewTask(c).id THEN new = old
                 ELSE /\ new.qty = qty
                      /\ new.status = IF autoStatus[c]
                                      THEN (IF qty <= 0 THEN "Empty"
                                            ELSE IF qty <= lowThreshold[c] THEN "Low"
                                            ELSE "Normal")
                                      ELSE old.status
                      /\ new.lastUpdated # None /\ new.lastUpdated[1] >= now
                      /\ [new EXCEPT !.qty = old.qty, !.status = old.status,
                                     !.lastUpdated = old.lastUpdated] = old]_vars

\* a client whose record stood at 0, as its own echo had set it, has
\* adjusted it by -1 and holds 0
C12_Witness ==
  \E c \in Clients :
    /\ tasks[c] # <<>> /\ tasks[c][1].kind = "adjust" /\ tasks[c][1].pc = "upsert"
    /\ tasks[c][1].delta = -1 /\ tasks[c][1].tag = 2
    /\ lastEv[c].echo /\ lastEv[c].id = tasks[c][1].id
    /\ dbItems[tasks[c][1].id] # None /\ dbItems[tasks[c][1].id][1].qty = 0
    /\ Find(items[c], tasks[c][1].id) # None
    /\ Find(items[c], tasks[c][1].id)[1].qty = 0


\* ======================================================== filterAndSort
\* the characters of the strings that are searched
chars(s) ==
  CASE s = ""     -> <<>>
    [] s = "ge"   -> <<"g", "e">>
    [] s = "GE"   -> <<"G", "E">>
    [] s = "Gel"  -> <<"G", "e", "l">>
    [] s = "Tip"  -> <<"T", "i", "p">>
    [] s = "Age"  -> <<"A", "g", "e">>
    [] s = "Bio"  -> <<"B", "i", "o">>
    [] s = "Lab"  -> <<"L", "a", "b">>
    [] s = "Cage" -> <<"C", "a", "g", "e">>
    [] OTHER      -> <<s>>

lowerChar(ch) ==
  CASE ch = "A" -> "a" [] ch = "B" -> "b" [] ch = "C" -> "c" [] ch = "E" -> "e"
    [] ch = "G" -> "g" [] ch = "L" -> "l" [] ch = "T" -> "t" [] OTHER -> ch

\* s.toLowerCase(), as characters
lowered(s) == [i \in 1..Len(chars(s)) |-> lowerChar(chars(s)[i])]

\* String.prototype.includes on characters
includes(t, sub) ==
  \E i \in 0..(Len(t) - Len(sub)) : SubSeq(t, i + 1, i + Len(sub)) = sub

\* a value Number() maps to NaN (a missing or non-numeric quantity)
NaN == 1000

NumberRaw(v) == v

\* Number.isFinite(Number(A)) ? Number(A) : 0
NumberOr0(v) == IF v = NaN THEN 0 ELSE v

\* a.localeCompare(b, "th") for the names that occur
localeCompare(a, b) ==
  LET rank(x) == CASE x = "Gel" -> 1 [] x = "Tip" -> 2 [] OTHER -> 0
  IN rank(a) - rank(b)

cmpAscOnly(a, b, key, asc) ==
  IF key \in {"qty", "id"} THEN NumberOr0(a[key]) - NumberOr0(b[key])
  ELSE localeCompare(a[key], b[key])

\* the comparator of filterAndSort
cmp(a, b, key, asc) ==
  LET res == IF key \in {"qty", "id"} THEN NumberOr0(a[key]) - NumberOr0(b[key])
             ELSE localeCompare(a[key], b[key])
  IN IF asc THEN res ELSE 0 - res

\* Array.prototype.sort with cmp: stable
RECURSIVE sorted(_, _, _)
sorted(s, key, asc) ==
  IF s = <<>> THEN <<>>
  ELSE LET t == sorted(SubSeq(s, 1, Len(s) - 1), key, asc)
           x == s[Len(s)]
           k == Cardinality({i \in 1..Len(t) : cmp(t[i], x, key, asc) <= 0})
       IN SubSeq(t, 1, k) \o <<x>> \o SubSeq(t, k + 1, Len(t))

matchesNameOnly(i, qq) == includes(lowered(i.name), qq)

\* the free-text predicate of the first filter
matches(i, qq) ==
  \/ includes(lowered(i.name), qq)
  \/ includes(lowered(i.category), qq)
  \/ includes(lowered(i.location), qq)

notNormalLowOnly(i) == i.status = "Low"

\* the predicate of the onlyLow filter
notNormal(i) == i.status # "Normal"

\* filters: [q, category, status, location, onlyLow], each optional;
\* sort: [key, asc]
filterAndSort(its, filters, sort) ==
  LET qq == lowered(OrElse(filters.q, ""))
      out1 == SelectSeq(its, LAMBDA i : matches(i, qq))
      out2 == IF OrElse(filters.category, ALL) # ALL
              THEN SelectSeq(out1, LAMBDA i : i.category = filters.category[1]) ELSE out1
      out3 == IF OrElse(filters.status, ALL) # ALL
              THEN SelectSeq(out2, LAMBDA i : i.status = filters.status[1]) ELSE out2
      out4 == IF OrElse(filters.location, ALL) # ALL
              THEN SelectSeq(out3, LAMBDA i : i.location = filters.location[1]) ELSE out3
      out5 == IF OrElse(filters.onlyLow, FALSE)
              THEN SelectSeq(out4, LAMBDA i : notNormal(i)) ELSE out4
  IN sorted(out5, sort.key, sort.asc)

\* records the function is called with
ViewPool == <<
  [id |-> 1, category |-> "Age", name |-> "Gel", qty |-> 0, unit |-> "box",
   status |-> "Empty", location |-> "Lab", checkedBy |-> None, lastUpdated |-> None],
  [id |-> 2, category |-> "Bio", name |-> "Tip", qty |-> 5, unit |-> "box",
   status |-> "Normal", location |-> "Cage", checkedBy |-> None, lastUpdated |-> None],
  [id |-> 3, category |-> "Bio", name |-> "Tip", qty |-> NaN, unit |-> "box",
   status |-> "Low", location |-> "Lab", checkedBy |-> None, lastUpdated |-> None],
  [id |-> 4, category |-> "Bio", name |-> "Gel", qty |-> 2, unit |-> "box",
   status |-> "Low", location |-> "Cage", checkedBy |-> None, lastUpdated |-> None],
  [id |-> 5, category |-> "Age", name |-> "Tip", qty |-> 2, unit |-> "box",
   status |-> "Normal", location |-> "Lab", checkedBy |-> None, lastUpdated |-> None] >>

\* collections of up to MaxLen of them, ids unique, in any order
ViewCollections ==
  UNION {{[i \in 1..n |-> ViewPool[ix[i]]] :
            ix \in {f \in [1..n -> 1..Len(ViewPool)] :
                      \A i, j \in 1..n : f[i] = f[j] => i = j}} : n \in 0..MaxLen}

SortKeys == {"id", "qty", "name"}

ViewFilters ==
  [q : {None, Some(""), Some("GE")},
   category : {None, Some(ALL), Some("Age")},
   status : {None, Some(ALL), Some("Low")},
   location : {Some(ALL), Some("Cage")},
   onlyLow : {None, Some(FALSE), Some(TRUE)}]

FilterCalls ==
  {[fn |-> "filterAndSort", items |-> its, filters |-> f, sort |-> [key |-> k, asc |-> a]] :
     its \in ViewCollections, f \in ViewFilters, k \in SortKeys, a \in BOOLEAN}

\* ==================================================== pure helper calls
\* computeStatus called with any quantity and any threshold >= 1
StatusCalls ==
  {[fn |-> "computeStatus", qty |-> x, low |-> t] :
     x \in (0 - FnMaxQty)..FnMaxQty, t \in 1..FnMaxLow}

\* everything but the helper call stays as it is after construction
StoreIdle ==
  /\ hasSupabase = TRUE
  /\ dbItems = [i \in Ids |-> None]
  /\ dbCheckers = {}
  /\ ls = [c \in Clients |-> [items |-> None, checkers |-> None]]
  /\ pc = [c \in Clients |-> "mount"]
  /\ loadRes = [c \in Clients |-> [items |-> <<>>, checkers |-> <<>>]]
  /\ bootIdx = [c \in Clients |-> 1]
  /\ checkers = [c \in Clients |-> DEFAULT_CHECKERS]
  /\ loading = [c \in Clients |-> TRUE]
  /\ errorMsg = [c \in Clients |-> None]
  /\ autoStatus = [c \in Clients |-> TRUE]
  /\ lowThreshold = [c \in Clients |-> 1]
  /\ checkOpen = [c \in Clients |-> FALSE]
  /\ checkTarget = [c \in Clients |-> None]
  /\ checkSelected = [c \in Clients |-> <<>>]
  /\ subscribed = [c \in Clients |-> FALSE]
  /\ queue = [c \in Clients |-> <<>>]
  /\ tasks = [c \in Clients |-> <<>>]
  /\ now = 1
  /\ ops = 0
  /\ rejected = [c \in Clients |-> {}]
  /\ lastEv = [c \in Clients |-> NoEv]
  /\ watch = [c \in Clients |-> None]
  /\ everIn = [c \in Clients |-> Range(DEFAULT_CHECKERS)]

InitFn ==
  /\ StoreIdle
  /\ items = [c \in Clients |-> SEED]
  /\ rendered = [c \in Clients |-> [items |-> SEED, checkers |-> DEFAULT_CHECKERS]]
  /\ ViewDefaults
  /\ call \in {Some(a) : a \in StatusCalls \cup FilterCalls}
  /\ ret = None

\* the call is evaluated
CallComputeStatus ==
  /\ call # None /\ ret = None
  /\ call[1].fn = "computeStatus"
  /\ ret' = Some(computeStatus(call[1].qty, call[1].low))
  /\ UNCHANGED <<storeVars, viewVars, call>>

CallFilterAndSortInPlace ==
  /\ call # None /\ ret = None
  /\ call[1].fn = "filterAndSort"
  /\ ret' = Some(filterAndSort(call[1].items, call[1].filters, call[1].sort))
  /\ call' = Some([call[1] EXCEPT !.items = sorted(call[1].items, call[1].sort.key,
                                                    call[1].sort.asc)])
  /\ UNCHANGED <<storeVars, viewVars>>

\* the call is evaluated: filter builds new arrays, the sort works on a copy
CallFilterAndSort ==
  /\ call # None /\ ret = None
  /\ call[1].fn = "filterAndSort"
  /\ ret' = Some(filterAndSort(call[1].items, call[1].filters, call[1].sort))
  /\ UNCHANGED <<storeVars, viewVars, call>>

NextFn ==
  \/ CallComputeStatus
  \/ CallFilterAndSort

SpecFn == InitFn /\ [][NextFn]_vars

\* C13: computeStatus(q, t), for every integer q and threshold t >= 1,
\* returns a status, and returns Empty exactly when q <= 0, Low exactly when
\* 0 < q <= t and Normal exactly when q > t.
C13_ComputeStatusCases ==
  (call # None /\ call[1].fn = "computeStatus" /\ ret # None) =>
    LET x == call[1].qty
        t == call[1].low
    IN /\ ret[1] \in {"Empty", "Low", "Normal"}
       /\ ret[1] = "Empty"  <=> x <= 0
       /\ ret[1] = "Low"    <=> (0 < x /\ x <= t)
       /\ ret[1] = "Normal" <=> x > t

\* computeStatus(t, t) has returned Low for a threshold t above 1
C13_Witness ==
  /\ call # None /\ call[1].fn = "computeStatus"
  /\ call[1].qty = call[1].low /\ call[1].low > 1
  /\ ret = Some("Low")


\* a call of filterAndSort has returned
Filtered == call # None /\ call[1].fn = "filterAndSort" /\ ret # None

\* record r satisfies every active filter of f
Passes(r, f) ==
  /\ LET qq == lowered(OrElse(f.q, ""))
     IN \/ includes(lowered(r.name), qq)
        \/ includes(lowered(r.category), qq)
        \/ includes(lowered(r.location), qq)
  /\ (f.category # None /\ f.category # Some(ALL)) => r.category = f.category[1]
  /\ (f.status # None /\ f.status # Some(ALL)) => r.status = f.status[1]
  /\ (f.location # None /\ f.location # Some(ALL)) => r.location = f.location[1]
  /\ f.onlyLow = Some(TRUE) => r.status # "Normal"

\* C14: filterAndSort returns exactly the input records that satisfy all
\* active filters together, each once: none invented, none that fails a
\* filter kept, none that passes all dropped; an unset or "all" filter
\* removes nothing.
C14_FilterIsConjunction ==
  Filtered =>
    /\ Range(ret[1]) = {r \in Range(call[1].items) : Passes(r, call[1].filters)}
    /\ Len(ret[1]) = Cardinality(Range(ret[1]))

\* a query in upper case with a category filter: a record is returned whose
\* name does not contain the query, and another record is dropped
C14_Witness ==
  /\ Filtered
  /\ call[1].filters.q = Some("GE") /\ call[1].filters.category = Some("Age")
  /\ \E i \in 1..Len(ret[1]) : ret[1][i].name = "Tip"
  /\ Len(ret[1]) < Len(call[1].items)

\* the scenario of the spec: {id 1, quantity 0} and {id 2, quantity 5},
\* statuses derived with threshold 1, only the onlyLow filter active
LowScenario ==
  /\ [i \in 1..Len(call[1].items) |->
        <<call[1].items[i].id, call[1].items[i].qty>>] = << <<1, 0>>, <<2, 5>> >>
  /\ \A i \in 1..Len(call[1].items) :
       call[1].items[i].status = computeStatus(call[1].items[i].qty, 1)
  /\ call[1].filters.q \in {None, Some("")}
  /\ call[1].filters.category \in {None, Some(ALL)}
  /\ call[1].filters.status \in {None, Some(ALL)}
  /\ call[1].filters.location \in {None, Some(ALL)}

\* C15: with onlyLow set no returned record has status Normal, and in the
\* scenario exactly the record with id 1 is returned.
C15_OnlyLowDropsNormal ==
  (Filtered /\ call[1].filters.onlyLow = Some(TRUE)) =>
    /\ \A i \in 1..Len(ret[1]) : ret[1][i].status # "Normal"
    /\ LowScenario => [i \in 1..Len(ret[1]) |-> ret[1][i].id] = <<1>>

\* the scenario has been evaluated
C15_Witness ==
  /\ Filtered /\ call[1].filters.onlyLow = Some(TRUE) /\ LowScenario
  /\ Len(ret[1]) = 1 /\ ret[1][1].id = 1

\* C16: evaluating filterAndSort leaves its input collection as it was:
\* the same records in the same order.
C16_InputNotMutated ==
  [][(call # None /\ call[1].fn = "filterAndSort" /\ ret' # ret) =>
       (call' # None /\ call'[1].items = call[1].items)]_vars

\* a call has returned every record of its input in another order
C16_Witness ==
  /\ Filtered
  /\ Len(ret[1]) = Len(call[1].items) /\ Len(ret[1]) = MaxLen
  /\ ret[1] # call[1].items

Reverse(s) == [i \in 1..Len(s) |-> s[Len(s) + 1 - i]]

\* the same call with the direction turned round
Opposite ==
  filterAndSort(call[1].items, call[1].filters,
                [key |-> call[1].sort.key, asc |-> ~call[1].sort.asc])

\* C17 as stated: sorted by quantity, the two directions give reversed
\* sequences whenever no two records have equal quantity.
C17_QtyDirectionsReversed ==
  (/\ Filtered /\ call[1].sort.key = "qty"
   /\ \A i, j \in 1..Len(call[1].items) :
        call[1].items[i].qty = call[1].items[j].qty => i = j)
  => ret[1] = Reverse(Opposite)

\* the quantity the comparator sees: 0 for a missing or non-numeric one
SeenQty(r) == IF r.qty = NaN THEN 0 ELSE r.qty

\* C17 amended: sorted by quantity, the two directions give reversed
\* sequences whenever no two records compare equal on quantity, a missing
\* or non-numeric quantity counting as 0.
C17_QtyDirectionsReversedNoTies ==
  (/\ Filtered /\ call[1].sort.key = "qty"
   /\ \A i, j \in 1..Len(call[1].items) :
        SeenQty(call[1].items[i]) = SeenQty(call[1].items[j]) => i = j)
  => ret[1] = Reverse(Opposite)

\* MaxLen records without ties, one of them without a numeric quantity,
\* have been sorted by quantity descending
C17_Witness ==
  /\ Filtered /\ call[1].sort.key = "qty" /\ ~call[1].sort.asc
  /\ Len(ret[1]) = MaxLen
  /\ \E i \in 1..Len(ret[1]) : ret[1][i].qty = NaN
  /\ \A i, j \in 1..Len(call[1].items) :
       SeenQty(call[1].items[i]) = SeenQty(call[1].items[j]) => i = j

\* the number a numeric sort key stands for
SeenKey(r, key) == IF r[key] = NaN THEN 0 ELSE r[key]

\* C18: with sort key quantity or id the output is a permutation of the
\* records that pass the filters, non-decreasing in the key when ascending
\* and non-increasing when descending, a missing or non-numeric value
\* counting as 0.
C18_NumericSortOrdered ==
  (Filtered /\ call[1].sort.key \in {"qty", "id"}) =>
    /\ Range(ret[1]) = {r \in Range(call[1].items) : Passes(r, call[1].filters)}
    /\ Len(ret[1]) = Cardinality(Range(ret[1]))
    /\ \A i, j \in 1..Len(ret[1]) :
         i < j => IF call[1].sort.asc
                  THEN SeenKey(ret[1][i], call[1].sort.key) <= SeenKey(ret[1][j], call[1].sort.key)
                  ELSE SeenKey(ret[1][i], call[1].sort.key) >= SeenKey(ret[1][j], call[1].sort.key)

\* records with quantities 5, 2 and a non-numeric one, sorted ascending
C18_Witness ==
  /\ Filtered /\ call[1].sort.key = "qty" /\ call[1].sort.asc
  /\ [i \in 1..Len(ret[1]) |-> ret[1][i].qty] = <<NaN, 2, 5>>
  /\ call[1].items # ret[1]


(***************************************************************************)
(* view state: search box, selects, low-stock toggle, column headers       *)
(***************************************************************************)

Queries == {"", "ge", "GE"}
Categories == {ALL, "Age", "Bio"}
Statuses == {ALL, "Normal", "Low", "Empty"}
Locations == {ALL, "Lab", "Cage"}
HeaderKeys == {"id", "category", "name", "qty", "unit", "status", "location", "lastUpdated"}

SetQ(v) ==
  /\ q' = v
  /\ UNCHANGED <<storeVars, callVars, cat, stat, loc, onlyLow, sortKey, sortAsc, sortLog>>

SetCat(v) ==
  /\ cat' = v
  /\ UNCHANGED <<storeVars, callVars, q, stat, loc, onlyLow, sortKey, sortAsc, sortLog>>

SetStat(v) ==
  /\ stat' = v
  /\ UNCHANGED <<storeVars, callVars, q, cat, loc, onlyLow, sortKey, sortAsc, sortLog>>

SetLoc(v) ==
  /\ loc' = v
  /\ UNCHANGED <<storeVars, callVars, q, cat, stat, onlyLow, sortKey, sortAsc, sortLog>>

ToggleOnlyLow ==
  /\ onlyLow' = ~onlyLow
  /\ UNCHANGED <<storeVars, callVars, q, cat, stat, loc, sortKey, sortAsc, sortLog>>

\* the last two header clicks, each with the sort state it found
Logged(key) ==
  LET e == [sel |-> key, key |-> sortKey, asc |-> sortAsc]
  IN IF Len(sortLog) < 2 THEN Append(sortLog, e) ELSE <<sortLog[2], e>>

\* a header click that only ever flips the direction
SetSortKeepDirection(key) ==
  /\ IF sortKey = key
     THEN sortAsc' = ~sortAsc /\ UNCHANGED sortKey
     ELSE sortKey' = key /\ UNCHANGED sortAsc
  /\ sortLog' = Logged(key)
  /\ UNCHANGED <<storeVars, callVars, q, cat, stat, loc, onlyLow>>

SetSort(key) ==
  /\ IF sortKey = key
     THEN sortAsc' = ~sortAsc /\ UNCHANGED sortKey
     ELSE sortKey' = key /\ sortAsc' = TRUE
  /\ sortLog' = Logged(key)
  /\ UNCHANGED <<storeVars, callVars, q, cat, stat, loc, onlyLow>>

NextView ==
  \/ \E v \in Queries : SetQ(v)
  \/ \E v \in Categories : SetCat(v)
  \/ \E v \in Statuses : SetStat(v)
  \/ \E v \in Locations : SetLoc(v)
  \/ ToggleOnlyLow
  \/ \E k \in HeaderKeys : SetSort(k)

SpecView == Init /\ [][NextView]_vars

\* C19: selecting the active sort key flips the direction and keeps the
\* key, so selecting it twice in succession restores the direction;
\* selecting another key makes it the sort key with direction ascending.
C19_SetSortStateMachine ==
  /\ sortLog # <<>> =>
       LET e == sortLog[Len(sortLog)]
       IN IF e.sel = e.key
          THEN sortKey = e.key /\ sortAsc = ~e.asc
          ELSE sortKey = e.sel /\ sortAsc = TRUE
  /\ (/\ Len(sortLog) = 2
      /\ sortLog[1].sel = sortLog[1].key
      /\ sortLog[2].sel = sortLog[1].sel)
     => sortKey = sortLog[1].key /\ sortAsc = sortLog[1].asc

\* the quantity header, active and descending, has been clicked twice
C19_Witness ==
  /\ Len(sortLog) = 2
  /\ sortLog[1] = [sel |-> "qty", key |-> "qty", asc |-> FALSE]
  /\ sortLog[2].sel = "qty"
  /\ sortKey = "qty" /\ ~sortAsc

\* a header other than the active one, sorted descending, has been clicked
C19_WitnessOtherKey ==
  /\ sortLog # <<>>
  /\ sortLog[Len(sortLog)] = [sel |-> "name", key |-> "qty", asc |-> FALSE]
  /\ sortKey = "name" /\ sortAsc


(***************************************************************************)
(* quick check in progress: both clients have loaded, the one that found   *)
(* the table empty and seeded it and the one that read the seeded rows,    *)
(* and the second has opened the quick-check dialog on a record.  User     *)
(* operations are counted from this state on.                              *)
(***************************************************************************)

\* the collection dbLoadAll hands to a client that finds the seeded rows
LoadedSEED == [i \in 1..Len(SEED) |-> rowToItem(toRow(SEED[i]))]

\* client d has loaded the rows client o seeded, and has the dialog open
DialogOpenedAt(d, o) ==
  /\ hasSupabase = TRUE
  /\ dbItems = [i \in Ids |-> Some(toRow(Find(SEED, i)[1]))]
  /\ dbCheckers = {}
  /\ ls = [c \in Clients |-> [items |-> None, checkers |-> None]]
  /\ pc = [c \in Clients |-> "ready"]
  /\ loadRes = [c \in Clients |->
        [items |-> IF c = d THEN LoadedSEED ELSE <<>>, checkers |-> DEFAULT_CHECKERS]]
  /\ bootIdx = [c \in Clients |-> IF c = o THEN Len(SEED) + 1 ELSE 1]
  /\ items = [c \in Clients |-> IF c = d THEN LoadedSEED ELSE SEED]
  /\ checkers = [c \in Clients |-> DEFAULT_CHECKERS]
  /\ rendered = [c \in Clients |->
        [items |-> IF c = d THEN LoadedSEED ELSE SEED, checkers |-> DEFAULT_CHECKERS]]
  /\ loading = [c \in Clients |-> FALSE]
  /\ errorMsg = [c \in Clients |-> None]
  /\ autoStatus = [c \in Clients |-> TRUE]
  /\ lowThreshold = [c \in Clients |-> 1]
  /\ checkOpen = [c \in Clients |-> c = d]
  /\ checkTarget = [c \in Clients |-> IF c = d THEN Find(LoadedSEED, 53) ELSE None]
  /\ checkSelected = [c \in Clients |-> <<>>]
  /\ subscribed = [c \in Clients |-> TRUE]
  /\ queue = [c \in Clients |-> <<>>]
  /\ tasks = [c \in Clients |-> <<>>]
  /\ now = 1
  /\ rejected = [c \in Clients |-> {}]
  /\ lastEv = [c \in Clients |-> NoEv]
  /\ watch = [c \in Clients |-> None]
  /\ everIn = [c \in Clients |-> Range(DEFAULT_CHECKERS)]
  /\ ViewDefaults
  /\ NoCall

InitDialog == DialogOpenedAt("c2", "c1") /\ ops = 0

\* every step of a loaded client
NextDialog ==
  \E c \in Clients :
    \/ Render(c)
    \/ \E id \in ActIds, delta \in {-1, 1} : AdjustQty(c, id, delta)
    \/ \E id \in ActIds : OpenQuickCheck(c, id)
    \/ \E n \in Range(NameOrder) : ToggleChecker(c, n)
    \/ CancelQuickCheck(c)
    \/ ConfirmQuickCheck(c)
    \/ \E id \in ActIds : Remove(c, id)
    \/ \E n \in MemberInputs : AddMember(c, n)
    \/ \E n \in Range(NameOrder) : RemoveMember(c, n)
    \/ \E b \in BOOLEAN : SetAutoStatus(c, b)
    \/ \E v \in 0..MaxThreshold : SetLowThreshold(c, v)
    \/ \E k \in 1..MaxInFlight :
         \/ DbUpsertItem(c, k)
         \/ DbDeleteItem(c, k)
         \/ DbSelectCheckers(c, k)
         \/ DbDeleteCheckers(c, k)
         \/ DbInsertCheckers(c, k)
         \/ DbReject(c, k)
         \/ ResumeConfirm(c, k)
         \/ ResumeRemove(c, k)
         \/ ResumeSetCheckers(c, k)
         \/ HandlerRejects(c, k)
    \/ OnItemInsert(c)
    \/ OnItemUpdate(c)
    \/ OnItemDelete(c)
    \/ OnCheckerInsert(c)
    \/ OnCheckerDelete(c)

SpecDialog == InitDialog /\ [][NextDialog]_vars

\* new is old with only checkedBy and lastUpdated replaced
OnlyCheckChanged(old, new) ==
  [new EXCEPT !.checkedBy = old.checkedBy, !.lastUpdated = old.lastUpdated] = old

\* C20: a confirmation replaces the record's checkedBy and refreshes its
\* lastUpdated and changes nothing else: in the payload sent to the backend
\* and in the local state every other field has the value the record holds
\* in the collection at confirmation time, and every other record is left
\* as it is.
C20_ConfirmChangesOnlyCheck ==
  [][\A c \in Clients :
       /\ (Dispatched(c) /\ NewTask(c).kind = "confirm"
             /\ NewTask(c).id \in IdsOf(items[c]))
          => OnlyCheckChanged(Find(items[c], NewTask(c).id)[1], NewTask(c).item[1])
       /\ \A k \in 1..MaxInFlight :
            (Ends(c, k, "ok") /\ tasks[c][k].kind = "confirm") =>
              /\ Len(items'[c]) = Len(items[c])
              /\ \A i \in 1..Len(items[c]) :
                   IF items[c][i].id # tasks[c][k].id
                   THEN items'[c][i] = items[c][i]
                   ELSE /\ OnlyCheckChanged(items[c][i], items'[c][i])
                        /\ items'[c][i].checkedBy = tasks[c][k].item[1].checkedBy
                        /\ items'[c][i].lastUpdated # None]_vars


(***************************************************************************)
(* the checker roster                                                      *)
(***************************************************************************)

\* name n is, up to letter case, a name of the roster client c shows
InRosterAnyCase(c, n) ==
  \E m \in Range(rendered[c].checkers) : toLowerCase(m) = toLowerCase(n)

\* C21: adding a name that equals a name of the roster up to letter case
\* is rejected: the local roster stays as it is, no request goes to the
\* backend and nothing is written to local storage.
C21_DuplicateAddRejected ==
  [][\A c \in Clients : \A n \in MemberInputs :
       (AddMember(c, n) /\ InRosterAnyCase(c, n)) =>
         /\ checkers' = checkers /\ rendered' = rendered
         /\ tasks' = tasks /\ ls' = ls
         /\ dbCheckers' = dbCheckers /\ queue' = queue]_vars

\* "nice" has been typed at a client whose roster holds "Nice": the action
\* was counted and the roster, shown and held, is the loaded one
C21_Witness ==
  /\ ops = 1 /\ ~loading["c1"] /\ pc["c1"] = "ready"
  /\ checkers["c1"] = DEFAULT_CHECKERS /\ rendered["c1"].checkers = DEFAULT_CHECKERS
  /\ items["c1"] = rendered["c1"].items
  /\ tasks["c1"] = <<>> /\ ~checkOpen["c1"]
  /\ autoStatus["c1"] /\ lowThreshold["c1"] = 1
  /\ \A i \in 1..Len(items["c1"]) : items["c1"][i].lastUpdated = None
  /\ Len(items["c1"]) = Len(SEED)
  /\ rejected["c1"] = {}


\* C22: in every reachable state the names of a client's roster are
\* pairwise different under case-insensitive comparison.
C22_RosterUniqueAnyCase ==
  \A c \in Clients : \A i, j \in 1..Len(checkers[c]) :
    toLowerCase(checkers[c][i]) = toLowerCase(checkers[c][j]) => i = j


\* client c handles the roster event op at the head of its queue
CheckerHandled(c, op) ==
  /\ queue[c] # <<>>
  /\ Head(queue[c]).table = "checkers"
  /\ Head(queue[c]).op = op
  /\ queue'[c] = Tail(queue[c])

\* C23: a checker-added event leaves the roster as it is when exactly that
\* string is in it and appends the name otherwise, also when the roster
\* holds the name in another letter case; a checker-removed event removes
\* exactly that string and changes nothing when it is absent; neither
\* changes a record.
C23_RosterEventsExactMatch ==
  [][\A c \in Clients :
       LET n == Head(queue[c]).name
       IN /\ CheckerHandled(c, "INSERT") =>
               /\ checkers'[c] = IF n \in Range(checkers[c]) THEN checkers[c]
                                 ELSE Append(checkers[c], n)
               /\ items' = items /\ dbItems' = dbItems
          /\ CheckerHandled(c, "DELETE") =>
               /\ checkers'[c] = SelectSeq(checkers[c], LAMBDA m : m # n)
               /\ n \notin Range(checkers[c]) => checkers'[c] = checkers[c]
               /\ items' = items /\ dbItems' = dbItems]_vars

\* a roster holds "Nice" and, added by an event, "nice"
C23_Witness ==
  \E c \in Clients :
    /\ {"Nice", "nice"} \subseteq Range(checkers[c])
    /\ \A k \in 1..Len(tasks[c]) : tasks[c][k].kind \notin RosterKinds


(***************************************************************************)
(* a checked record: the first client has seeded the backend, added "Bo"   *)
(* to the roster and confirmed a quick check of record 53 by "Bo"; the     *)
(* second client has not loaded yet.  User operations are counted from     *)
(* this state on.                                                          *)
(***************************************************************************)

\* record 53 after the confirmed quick check
Checked53 == [SEED[2] EXCEPT !.checkedBy = Some(<<"Bo">>), !.lastUpdated = Some(1)]

\* client d has done so and has seen its own events; the others are as
\* mounted
CheckedAt(d) ==
  /\ hasSupabase = TRUE
  /\ dbItems = [i \in Ids |-> Some(toRow(IF i = 53 THEN Checked53 ELSE Find(SEED, i)[1]))]
  /\ dbCheckers = Range(DEFAULT_CHECKERS) \cup {"Bo"}
  /\ ls = [c \in Clients |-> [items |-> None, checkers |-> None]]
  /\ pc = [c \in Clients |-> IF c = d THEN "ready" ELSE "mount"]
  /\ loadRes = [c \in Clients |->
        [items |-> <<>>, checkers |-> IF c = d THEN DEFAULT_CHECKERS ELSE <<>>]]
  /\ bootIdx = [c \in Clients |-> IF c = d THEN Len(SEED) + 1 ELSE 1]
  /\ items = [c \in Clients |-> IF c = d THEN <<SEED[1], Checked53>> ELSE SEED]
  /\ checkers = [c \in Clients |->
        IF c = d THEN Append(DEFAULT_CHECKERS, "Bo") ELSE DEFAULT_CHECKERS]
  /\ rendered = [c \in Clients |-> [items |-> items[c], checkers |-> checkers[c]]]
  /\ loading = [c \in Clients |-> c # d]
  /\ errorMsg = [c \in Clients |-> None]
  /\ autoStatus = [c \in Clients |-> TRUE]
  /\ lowThreshold = [c \in Clients |-> 1]
  /\ checkOpen = [c \in Clients |-> FALSE]
  /\ checkTarget = [c \in Clients |-> None]
  /\ checkSelected = [c \in Clients |-> IF c = d THEN <<"Bo">> ELSE <<>>]
  /\ subscribed = [c \in Clients |-> c = d]
  /\ queue = [c \in Clients |-> <<>>]
  /\ tasks = [c \in Clients |-> <<>>]
  /\ now = 1
  /\ rejected = [c \in Clients |-> {}]
  /\ lastEv = [c \in Clients |->
        IF c = d THEN [op |-> "UPDATE", id |-> 53, existed |-> TRUE, stale |-> FALSE,
                       same |-> TRUE, kept |-> TRUE, echo |-> FALSE]
        ELSE NoEv]
  /\ watch = [c \in Clients |-> None]
  /\ everIn = [c \in Clients |-> Range(checkers[c])]
  /\ ViewDefaults
  /\ NoCall

InitChecked == CheckedAt("c1") /\ ops = 0

\* every step but the bootstrap, which a table holding rows never starts
NextChecked ==
  \E c \in Clients :
    \/ DbLoadAll(c)
    \/ DbLoadAllFail(c)
    \/ LoadFinish(c)
    \/ Render(c)
    \/ \E id \in ActIds, delta \in {-1, 1} : AdjustQty(c, id, delta)
    \/ \E id \in ActIds : OpenQuickCheck(c, id)
    \/ \E n \in Range(NameOrder) : ToggleChecker(c, n)
    \/ CancelQuickCheck(c)
    \/ ConfirmQuickCheck(c)
    \/ \E id \in ActIds : Remove(c, id)
    \/ \E n \in MemberInputs : AddMember(c, n)
    \/ \E n \in Range(NameOrder) : RemoveMember(c, n)
    \/ \E b \in BOOLEAN : SetAutoStatus(c, b)
    \/ \E v \in 0..MaxThreshold : SetLowThreshold(c, v)
    \/ \E k \in 1..MaxInFlight :
         \/ DbUpsertItem(c, k)
         \/ DbDeleteItem(c, k)
         \/ DbSelectCheckers(c, k)
         \/ DbDeleteCheckers(c, k)
         \/ DbInsertCheckers(c, k)
         \/ DbReject(c, k)
         \/ ResumeConfirm(c, k)
         \/ ResumeRemove(c, k)
         \/ ResumeSetCheckers(c, k)
         \/ HandlerRejects(c, k)
    \/ OnItemInsert(c)
    \/ OnItemUpdate(c)
    \/ OnItemDelete(c)
    \/ OnCheckerInsert(c)
    \/ OnCheckerDelete(c)

SpecChecked == InitChecked /\ [][NextChecked]_vars


\* the step is one of a removeMember handler of client c: its start, one
\* of its requests being answered, or its resumption
RemovalStep(c) ==
  \/ Dispatched(c) /\ NewTask(c).kind = "removeMember"
  \/ \E k \in 1..Len(tasks[c]) :
       /\ tasks[c][k].kind = "removeMember"
       /\ \/ tasks'[c] = DropTask(c, k)[c]
          \/ Len(tasks'[c]) = Len(tasks[c]) /\ tasks'[c][k] # tasks[c][k]

\* C24: removing a checker from the roster, by removeMember or by a
\* checker-removed event, changes no record, at any client or in the
\* backend: every checkedBy stays as it is, also where it holds the name.
C24_RemovalKeepsCheckedBy ==
  [][\A c \in Clients :
       (RemovalStep(c) \/ CheckerHandled(c, "DELETE")) =>
         items' = items /\ dbItems' = dbItems]_vars

\* "Bo" has left the roster of the client that removed it and, by the
\* event, the roster of the client that had loaded it; record 53 is still
\* checked by "Bo" at both and in the backend
C24_Witness ==
  /\ "Bo" \notin dbCheckers
  /\ dbItems[53] # None /\ dbItems[53][1].checked_by = Some(<<"Bo">>)
  /\ \A c \in Clients :
       /\ "Bo" \in everIn[c] /\ "Bo" \notin Range(checkers[c])
       /\ tasks[c] = <<>> /\ queue[c] = <<>>
       /\ Find(items[c], 53) # None /\ Find(items[c], 53)[1].checkedBy = Some(<<"Bo">>)


\* the names the records of client c are checked by
CheckedNames(c) ==
  UNION {Range(OrElse(items[c][i].checkedBy, <<>>)) : i \in 1..Len(items[c])}

\* C25 as stated: every name in a record's checkedBy at a client is in
\* that client's roster or was in it earlier, also for records that came
\* by a remote event.
C25_CheckedByInOwnRoster ==
  \A c \in Clients : CheckedNames(c) \subseteq everIn[c]

\* the names some client's roster holds or has held
EverInAny == UNION {everIn[c] : c \in Clients}

\* C25 amended: every name in a record's checkedBy, at a client or in the
\* backend, is or was in the roster of some client, not necessarily of the
\* client holding the record; so is every name selected in a quick check,
\* the only way a name gets into a record.
C25_CheckedByInSomeRoster ==
  /\ \A c \in Clients :
       /\ CheckedNames(c) \subseteq EverInAny
       /\ Range(checkSelected[c]) \subseteq EverInAny
       /\ \A k \in 1..Len(tasks[c]) :
            tasks[c][k].item # None =>
              Range(OrElse(tasks[c][k].item[1].checkedBy, <<>>)) \subseteq EverInAny
  /\ \A i \in Ids :
       dbItems[i] # None => Range(OrElse(dbItems[i][1].checked_by, <<>>)) \subseteq EverInAny

\* a client that loaded after "Bo" had left the roster holds record 53
\* checked by "Bo", a name its own roster never held
C25_Witness ==
  \E c \in Clients :
    /\ pc[c] = "ready" /\ "Bo" \notin everIn[c]
    /\ "Bo" \in CheckedNames(c)
    /\ \E d \in Clients : "Bo" \in everIn[d]


\* client c handles the record-removed event at the head of its queue
DeleteHandled(c) ==
  /\ queue[c] # <<>>
  /\ Head(queue[c]).table = "items"
  /\ Head(queue[c]).op = "DELETE"
  /\ queue'[c] = Tail(queue[c])

\* C26: handling a record-removed event removes the local record of that
\* id when there is one and leaves the collection as it is when there is
\* none; the other records stay, in their order, and handling the same
\* event once more changes nothing.
C26_RemoteDeleteRemovesById ==
  [][\A c \in Clients :
       DeleteHandled(c) =>
         LET id == Head(queue[c]).id
         IN /\ id \notin IdsOf(items'[c])
            /\ items'[c] = SelectSeq(items[c], LAMBDA i : i.id # id)
            /\ id \notin IdsOf(items[c]) => items'[c] = items[c]
            /\ dropById(items'[c], id) = items'[c]
            /\ \A d \in Clients \ {c} : items'[d] = items[d]]_vars

\* one client has had a record removed by the event, another has handled
\* the event without holding the record
C26_Witness ==
  \E c, d \in Clients :
    /\ lastEv[c].op = "DELETE" /\ lastEv[c].existed /\ lastEv[c].id \notin IdsOf(items[c])
    /\ lastEv[d].op = "DELETE" /\ ~lastEv[d].existed /\ lastEv[d].id = lastEv[c].id
    /\ Len(items[c]) = Len(SEED) - 1 /\ Len(items[d]) = Len(SEED) - 1


\* C27: a delete asked for by the user removes the record of that id from
\* the backend and, once the request has been answered, from the client's
\* collection; when no row, or no local record, has the id the request is
\* answered without an error and backend, events and collection stay as
\* they are, so that a second delete of the id changes nothing.
C27_DeleteRemovesOrNoOp ==
  [][\A c \in Clients : \A k \in 1..MaxInFlight :
       /\ DbDeleteItem(c, k) =>
            LET id == tasks[c][k].id
            IN /\ tasks'[c][k].pc = "ok"
               /\ dbItems'[id] = None
               /\ \A j \in Ids \ {id} : dbItems'[j] = dbItems[j]
               /\ dbItems[id] = None => dbItems' = dbItems /\ queue' = queue
       /\ ResumeRemove(c, k) =>
            LET id == tasks[c][k].id
            IN /\ items'[c] = SelectSeq(items[c], LAMBDA i : i.id # id)
               /\ id \notin IdsOf(items[c]) => items'[c] = items[c]
               /\ rejected' = rejected /\ errorMsg' = errorMsg]_vars

\* the first client's delete of record 53 has removed the row and the
\* record; the second client's delete of it, sent after, has been answered
\* without an error
C27_Witness ==
  /\ dbItems[53] = None
  /\ tasks["c1"] = <<>> /\ 53 \notin IdsOf(items["c1"]) /\ rejected["c1"] = {}
  /\ Len(tasks["c2"]) = 1
  /\ tasks["c2"][1].kind = "remove" /\ tasks["c2"][1].pc = "ok" /\ tasks["c2"][1].id = 53
  /\ \E i \in 1..Len(queue["c2"]) :
       queue["c2"][i].op = "DELETE" /\ queue["c2"][i].by = <<"c1", 1>>


(***************************************************************************)
(* the initial load                                                        *)
(***************************************************************************)

\* C28: a client whose load finds the table empty writes the seed records
\* to the backend, each once and in order, and then holds the seed as its
\* collection; a client whose load returns a record writes no seed record
\* and holds what it loaded.
C28_BootstrapOnlyWhenEmpty ==
  [][\A c \in Clients :
       /\ Bootstrap(c) =>
            /\ Len(loadRes[c].items) = 0
            /\ bootIdx[c] \in 1..Len(SEED) /\ bootIdx'[c] = bootIdx[c] + 1
            /\ dbItems'[SEED[bootIdx[c]].id] = Some(toRow(SEED[bootIdx[c]]))
            /\ \A j \in Ids \ {SEED[bootIdx[c]].id} : dbItems'[j] = dbItems[j]
       /\ LoadFinish(c) =>
            IF Len(loadRes[c].items) = 0
            THEN bootIdx[c] = Len(SEED) + 1 /\ items'[c] = SEED
            ELSE bootIdx[c] = 1 /\ items'[c] = loadRes[c].items
       /\ Len(loadRes'[c].items) > 0 => pc'[c] # "boot" /\ bootIdx'[c] = 1]_vars

\* one client has seeded the empty table and holds the seed, the other
\* has loaded the seeded rows and written none
C28_Witness ==
  /\ pc["c1"] = "ready" /\ Len(loadRes["c1"].items) = 0
  /\ bootIdx["c1"] = Len(SEED) + 1 /\ items["c1"] = SEED
  /\ pc["c2"] = "ready" /\ Len(loadRes["c2"].items) = Len(SEED)
  /\ bootIdx["c2"] = 1 /\ items["c2"] = loadRes["c2"].items
  /\ \A i \in Ids : dbItems[i] # None


(***************************************************************************)
(* dbSetCheckers                                                           *)
(***************************************************************************)

\* the backend roster the select of roster handler t returned: the names
\* it then decided to delete and the names of its list it did not decide
\* to insert
CurAtSelect(t) == Range(t.toDel) \cup (Range(t.next) \ Range(t.toAdd))

\* C29: dbSetCheckers(list) is a full-replace diff against the backend
\* roster: the select yields as names to delete exactly the backend names
\* missing from list and as names to insert exactly the names of list
\* missing from the backend; with no other writer since the select, the
\* delete leaves the backend roster without exactly the former, the insert
\* leaves it equal to the names of list, and a call that completes leaves
\* it equal to the names of list.
C29_SetCheckersIsReplaceDiff ==
  [][\A c \in Clients : \A k \in 1..Len(tasks[c]) :
       (/\ tasks[c][k].kind \in RosterKinds
        /\ Len(tasks'[c]) = Len(tasks[c])
        /\ tasks'[c][k].pc \notin {tasks[c][k].pc, "err"}) =>
         LET t == tasks[c][k]
             u == tasks'[c][k]
             list == Range(t.next)
         IN CASE t.pc = "select" ->
                   /\ Range(u.toDel) = dbCheckers \ list
                   /\ Range(u.toAdd) = list \ dbCheckers
                   /\ dbCheckers' = dbCheckers
                   /\ u.pc = "ok" => dbCheckers = list
              [] t.pc = "cdelete" /\ dbCheckers = CurAtSelect(t) ->
                   /\ dbCheckers' = dbCheckers \ Range(t.toDel)
                   /\ u.pc = "ok" => dbCheckers' = list
              [] t.pc = "cinsert" /\ dbCheckers = CurAtSelect(t) \ Range(t.toDel) ->
                   /\ u.pc = "ok"
                   /\ dbCheckers' = list
              [] OTHER -> TRUE]_vars


(***************************************************************************)
(* the run of the initial load                                             *)
(***************************************************************************)

\* what a browser's localStorage may hold when the remote variant mounts:
\* nothing, or the records and roster an earlier session of the local
\* variant persisted
StoredRecords == {None, Some(<<[SEED[1] EXCEPT !.qty = 1]>>)}
StoredRosters == {None, Some(<<"Bo">>)}

InitLoad ==
  /\ hasSupabase = TRUE
  /\ dbItems = [i \in Ids |-> None]
  /\ dbCheckers = {}
  /\ ls \in [Clients -> [items : StoredRecords, checkers : StoredRosters]]
  /\ pc = [c \in Clients |-> "mount"]
  /\ loadRes = [c \in Clients |-> [items |-> <<>>, checkers |-> <<>>]]
  /\ bootIdx = [c \in Clients |-> 1]
  /\ items = [c \in Clients |-> SEED]
  /\ checkers = [c \in Clients |-> DEFAULT_CHECKERS]
  /\ rendered = [c \in Clients |-> [items |-> SEED, checkers |-> DEFAULT_CHECKERS]]
  /\ loading = [c \in Clients |-> TRUE]
  /\ errorMsg = [c \in Clients |-> None]
  /\ autoStatus = [c \in Clients |-> TRUE]
  /\ lowThreshold = [c \in Clients |-> 1]
  /\ checkOpen = [c \in Clients |-> FALSE]
  /\ checkTarget = [c \in Clients |-> None]
  /\ checkSelected = [c \in Clients |-> <<>>]
  /\ subscribed = [c \in Clients |-> FALSE]
  /\ queue = [c \in Clients |-> <<>>]
  /\ tasks = [c \in Clients |-> <<>>]
  /\ now = 1
  /\ ops = 0
  /\ rejected = [c \in Clients |-> {}]
  /\ lastEv = [c \in Clients |-> NoEv]
  /\ watch = [c \in Clients |-> None]
  /\ everIn = [c \in Clients |-> Range(DEFAULT_CHECKERS)]
  /\ ViewDefaults
  /\ NoCall

\* the load effect of every client and the realtime handlers its bootstrap
\* upserts reach; no user operation
NextLoad ==
  \E c \in Clients :
    \/ DbLoadAll(c)
    \/ DbLoadAllFail(c)
    \/ Bootstrap(c)
    \/ BootstrapFail(c)
    \/ LoadFinish(c)
    \/ Render(c)
    \/ OnItemInsert(c)
    \/ OnItemUpdate(c)

\* every awaited request of the load effect is answered, with data or with
\* an error, and the code after the last await runs
LoadFairness ==
  \A c \in Clients :
    /\ WF_vars(DbLoadAll(c) \/ DbLoadAllFail(c))
    /\ WF_vars(Bootstrap(c) \/ BootstrapFail(c))
    /\ WF_vars(LoadFinish(c))

SpecLoad == InitLoad /\ [][NextLoad]_vars /\ LoadFairness

\* C30: every run of the initial load ends with loading false, whether it
\* succeeded or failed; no error message is set while the load runs, and
\* at its end one is set exactly when the load or the bootstrap failed;
\* after a failure the client's records and roster are what localStorage
\* holds, the seed and the default roster where it holds none.
C30_LoadEndsEitherWay ==
  /\ \A c \in Clients : <>(~loading[c])
  /\ [][\A c \in Clients :
         /\ loading[c] => errorMsg[c] = None
         /\ (pc'[c] # pc[c] /\ pc'[c] \in {"ready", "failed"}) =>
              /\ ~loading'[c]
              /\ errorMsg'[c] # None <=> pc'[c] = "failed"
              /\ pc'[c] = "failed" =>
                   /\ items'[c] = IF ls[c].items = None THEN SEED ELSE ls[c].items[1]
                   /\ checkers'[c] = IF ls[c].checkers = None THEN DEFAULT_CHECKERS
                                     ELSE ls[c].checkers[1]]_vars

\* one client's load failed on a browser that held stored records, the
\* other client's load succeeded
C30_Witness ==
  \E c, d \in Clients :
    /\ pc[c] = "failed" /\ ~loading[c] /\ errorMsg[c] # None
    /\ ls[c].items # None /\ items[c] = ls[c].items[1]
    /\ ls[c].checkers = None /\ checkers[c] = DEFAULT_CHECKERS
    /\ pc[d] = "ready" /\ ~loading[d] /\ errorMsg[d] = None


(***************************************************************************)
(* the local variant                                                       *)
(***************************************************************************)

\* what localStorage may hold when the local variant mounts: nothing, or
\* what an earlier session persisted, a list left empty included
LocalRecords == StoredRecords \cup {Some(<<>>), Some(<<SEED[2]>>)}
LocalRosters == StoredRosters \cup {Some(<<>>)}

InitLocal ==
  /\ hasSupabase = FALSE
  /\ dbItems = [i \in Ids |-> None]
  /\ dbCheckers = {}
  /\ ls \in [Clients -> [items : LocalRecords, checkers : LocalRosters]]
  /\ pc = [c \in Clients |-> "mount"]
  /\ loadRes = [c \in Clients |-> [items |-> <<>>, checkers |-> <<>>]]
  /\ bootIdx = [c \in Clients |-> 1]
  /\ items = [c \in Clients |-> SEED]
  /\ checkers = [c \in Clients |-> DEFAULT_CHECKERS]
  /\ rendered = [c \in Clients |-> [items |-> SEED, checkers |-> DEFAULT_CHECKERS]]
  /\ loading = [c \in Clients |-> TRUE]
  /\ errorMsg = [c \in Clients |-> None]
  /\ autoStatus = [c \in Clients |-> TRUE]
  /\ lowThreshold = [c \in Clients |-> 1]
  /\ checkOpen = [c \in Clients |-> FALSE]
  /\ checkTarget = [c \in Clients |-> None]
  /\ checkSelected = [c \in Clients |-> <<>>]
  /\ subscribed = [c \in Clients |-> FALSE]
  /\ queue = [c \in Clients |-> <<>>]
  /\ tasks = [c \in Clients |-> <<>>]
  /\ now = 1
  /\ ops = 0
  /\ rejected = [c \in Clients |-> {}]
  /\ lastEv = [c \in Clients |-> NoEv]
  /\ watch = [c \in Clients |-> None]
  /\ everIn = [c \in Clients |-> Range(DEFAULT_CHECKERS)]
  /\ ViewDefaults
  /\ NoCall

\* the load effect and the user's operations; each client is a browser
\* with a localStorage of its own
NextLocal ==
  \E c \in Clients :
    \/ LoadLocal(c)
    \/ Render(c)
    \/ \E id \in ActIds, delta \in {-1, 1} : AdjustQty(c, id, delta)
    \/ \E id \in ActIds : OpenQuickCheck(c, id)
    \/ \E n \in Range(NameOrder) : ToggleChecker(c, n)
    \/ CancelQuickCheck(c)
    \/ ConfirmQuickCheck(c)
    \/ \E id \in ActIds : Remove(c, id)
    \/ \E n \in MemberInputs : AddMember(c, n)
    \/ \E n \in Range(NameOrder) : RemoveMember(c, n)
    \/ \E b \in BOOLEAN : SetAutoStatus(c, b)
    \/ \E v \in 0..MaxThreshold : SetLowThreshold(c, v)

SpecLocal == InitLocal /\ [][NextLocal]_vars

\* the state of client c is the state its last render committed
Handled(c) == rendered[c] = [items |-> items[c], checkers |-> checkers[c]]

\* localStorage of client c holds the record list and the roster of its state
Stored(c) == ls[c] = [items |-> Some(items[c]), checkers |-> Some(checkers[c])]

\* C31: without a remote configuration the load returns the stored record
\* list and roster, the seed and the default roster where nothing is
\* stored; once a mutation has been handled, that is with the render that
\* follows it, localStorage holds the record list and the roster of the
\* state, and it differs from them only between a user's action and that
\* render; no request is dispatched, the backend is never written and no
\* realtime event is queued or applied.
C31_LocalVariantWritesThrough ==
  /\ [][\A c \in Clients :
          /\ (pc[c] = "mount" /\ pc'[c] # "mount") =>
                /\ loadRes'[c].items = IF ls[c].items = None THEN SEED ELSE ls[c].items[1]
                /\ loadRes'[c].checkers = IF ls[c].checkers = None THEN DEFAULT_CHECKERS
                                          ELSE ls[c].checkers[1]
                /\ loadRes'[c].items # <<>> => items'[c] = loadRes'[c].items
                /\ loadRes'[c].checkers # <<>> => checkers'[c] = loadRes'[c].checkers
          /\ (pc'[c] = "ready" /\ Handled(c)' /\ (Render(c) \/ rendered'[c] # rendered[c])) =>
                Stored(c)'
          /\ (pc[c] = "ready" /\ Stored(c) /\ ~Stored(c)') =>
                ops' = ops + 1]_vars
  /\ [](\A c \in Clients :
          /\ tasks[c] = <<>> /\ queue[c] = <<>> /\ ~subscribed[c]
          /\ lastEv[c] = NoEv /\ errorMsg[c] = None
          /\ dbCheckers = {} /\ \A i \in Ids : dbItems[i] = None)

\* a client that loaded the list an earlier session stored and removed
\* its only record: localStorage holds the empty list
C31_Witness ==
  \E c \in Clients :
    /\ pc[c] = "ready" /\ Handled(c) /\ Stored(c) /\ ops = 2
    /\ loadRes[c].items = <<SEED[2]>> /\ items[c] = <<>>


(***************************************************************************)
(* dbUpsertItem in both variants                                           *)
(***************************************************************************)

\* the application with and without a remote configuration
InitStore == Init \/ InitLocal
NextStore == Next \/ NextLocal
SpecStore == InitStore /\ [][NextStore]_vars

\* the stored list after against the stored list before an upsert of it
UpsertedInto(before, after, it) ==
  /\ Cardinality({i \in 1..Len(after) : after[i].id = it.id}) = 1
  /\ Normal(<<Find(after, it.id)[1]>>) = Normal(<<it>>)
  /\ IF it.id \in IdsOf(before)
     THEN /\ Len(after) = Len(before)
          /\ \A i \in 1..Len(before) : before[i].id # it.id => after[i] = before[i]
     ELSE SubSeq(after, 1, Len(before)) = before /\ Len(after) = Len(before) + 1

\* C32: after dbUpsertItem(it) has succeeded the persisted store holds
\* exactly one record with the id of it, equal to it (a missing checkedBy
\* is stored as the empty list), and every other stored record is as it
\* was: in the backend table for the upserts of adjustQty,
\* confirmQuickCheck and the bootstrap, in localStorage for the upsert of
\* confirmQuickCheck without a backend.
C32_UpsertById ==
  [][\A c \in Clients :
       /\ \A k \in 1..Len(tasks[c]) :
            DbUpsertItem(c, k) =>
              LET it == tasks[c][k].item[1]
              IN /\ Cardinality({i \in 1..Len(DbRowsAsItems') : DbRowsAsItems'[i].id = it.id}) = 1
                 /\ Normal(<<rowToItem(dbItems'[it.id][1])>>) = Normal(<<it>>)
                 /\ \A j \in Ids \ {it.id} : dbItems'[j] = dbItems[j]
       /\ Bootstrap(c) =>
            LET it == SEED[bootIdx[c]]
            IN /\ Normal(<<rowToItem(dbItems'[it.id][1])>>) = Normal(<<it>>)
               /\ \A j \in Ids \ {it.id} : dbItems'[j] = dbItems[j]
       /\ (~hasSupabase /\ ConfirmQuickCheck(c)) =>
            UpsertedInto(OrElse(ls[c].items, <<>>), ls'[c].items[1],
                         [checkTarget[c][1] EXCEPT !.checkedBy = Some(checkSelected[c]),
                                                   !.lastUpdated = Some(now')])]_vars

\* the backend row of a record was inserted by the bootstrap and replaced
\* by a later upsert, the other row is as inserted
C32_Witness ==
  /\ hasSupabase
  /\ dbItems[53] # None /\ dbItems[53][1].last_updated # None
  /\ dbItems[1] = Some(toRow(SEED[1]))


(***************************************************************************)
(* the low-stock threshold                                                 *)
(***************************************************************************)

\* C33: the low-stock threshold of every client is at least 1 in every
\* reachable state, and so is the threshold every quantity adjustment
\* hands to computeStatus.
C33_ThresholdAtLeastOne ==
  /\ [](\A c \in Clients : lowThreshold[c] >= 1)
  /\ [][\A c \in Clients : \A id \in ActIds, delta \in {-1, 1} :
          AdjustQty(c, id, delta) /\ autoStatus[c] /\ id \in IdsOf(items[c]) =>
            \E low \in 1..(MaxThreshold + 1) :
              /\ low = lowThreshold[c]
              /\ Find(items'[c], id)[1].status =
                   computeStatus(Find(items'[c], id)[1].qty, low)]_vars

\* a client raised the threshold to 2 and then adjusted a quantity to 2:
\* computeStatus was called with threshold 2
C33_Witness ==
  \E c \in Clients :
    /\ lowThreshold[c] = 2 /\ autoStatus[c]
    /\ Find(items[c], 53) # None
    /\ Find(items[c], 53)[1].qty = 2
    /\ Find(items[c], 53)[1].status = computeStatus(2, 2)
    /\ computeStatus(2, 2) # computeStatus(2, 1)


(***************************************************************************)
(* helpers on record lists: nextId, export and import                      *)
(***************************************************************************)

\* records with and without the optional fields
ListPool == <<
  [id |-> 1, category |-> "misc", name |-> "tissue", qty |-> 0, unit |-> "roll",
   status |-> "Empty", location |-> "shelf", checkedBy |-> None, lastUpdated |-> None],
  [id |-> 2, category |-> "cell", name |-> "flask", qty |-> 3, unit |-> "box",
   status |-> "Normal", location |-> "bench", checkedBy |-> Some(<<>>), lastUpdated |-> Some(1)],
  [id |-> 4, category |-> "cell", name |-> "tips", qty |-> 1, unit |-> "box",
   status |-> "Low", location |-> "bench", checkedBy |-> Some(<<"Bo", "Fah">>),
   lastUpdated |-> Some(2)],
  [id |-> 53, category |-> "cell", name |-> "trypan blue", qty |-> 1, unit |-> "tube",
   status |-> "Empty", location |-> "bench", checkedBy |-> Some(<<"Nice">>),
   lastUpdated |-> None] >>

\* lists of up to MaxLen of them, ids unique, in any order
RecordLists ==
  UNION {{[i \in 1..n |-> ListPool[ix[i]]] :
            ix \in {f \in [1..n -> 1..Len(ListPool)] :
                      \A i, j \in 1..n : f[i] = f[j] => i = j}} : n \in 0..MaxLen}

RECURSIVE MaxId(_)
MaxId(its) ==
  IF Len(its) = 1 THEN its[1].id ELSE Max2(its[1].id, MaxId(Tail(its)))

\* the number of records plus one
nextIdByCount(its) == Len(its) + 1

nextId(its) == IF Len(its) # 0 THEN MaxId(its) + 1 ELSE 1

\* ---- delimited text: lines joined by "\n", cells joined by ","
CsvColumns == <<"id", "category", "name", "qty", "unit", "status", "location",
                "lastUpdated", "checkedBy">>

CsvRow(it) ==
  <<it.id, it.category, it.name, it.qty, it.unit, it.status, it.location,
    OrElse(it.lastUpdated, ""), OrElse(it.checkedBy, <<>>)>>

RECURSIVE JoinLines(_)
JoinLines(rows) ==
  IF rows = <<>> THEN <<>>
  ELSE IF Len(rows) = 1 THEN <<[line |-> rows[1]]>>
  ELSE <<[line |-> rows[1]], [nl |-> TRUE]>> \o JoinLines(Tail(rows))

\* an export that ends every line, the last one too, with "\n"
toCSVEndingLines(its) ==
  JoinLines(<<CsvColumns>> \o [i \in 1..Len(its) |-> CsvRow(its[i])]) \o <<[nl |-> TRUE]>>

toCSV(its) == JoinLines(<<CsvColumns>> \o [i \in 1..Len(its) |-> CsvRow(its[i])])

\* csv.split("\n"): one piece more than there are line breaks
SplitLines(text) ==
  Cardinality({i \in 1..Len(text) : "nl" \in DOMAIN text[i]}) + 1

\* ---- JSON: an object holds the keys whose value is defined
JsonObject(it) ==
  [k \in {"id", "category", "name", "qty", "unit", "status", "location"}
         \cup (IF it.checkedBy = None THEN {} ELSE {"checkedBy"})
         \cup (IF it.lastUpdated = None THEN {} ELSE {"lastUpdated"}) |->
     CASE k = "id" -> [num |-> it.id]
       [] k = "qty" -> [num |-> it.qty]
       [] k = "category" -> [str |-> it.category]
       [] k = "name" -> [str |-> it.name]
       [] k = "unit" -> [str |-> it.unit]
       [] k = "status" -> [str |-> it.status]
       [] k = "location" -> [str |-> it.location]
       [] k = "checkedBy" -> [arr |-> it.checkedBy[1]]
       [] k = "lastUpdated" -> [num |-> it.lastUpdated[1]]]

\* an export that writes the missing checkers as an empty list
toJSONFilled(its) ==
  [array |-> [i \in 1..Len(its) |->
      JsonObject([its[i] EXCEPT !.checkedBy = Some(OrElse(its[i].checkedBy, <<>>))])]]

\* JSON.stringify(items)
toJSON(its) == [array |-> [i \in 1..Len(its) |-> JsonObject(its[i])]]

FromObject(o) ==
  [id |-> o["id"].num, category |-> o["category"].str, name |-> o["name"].str,
   qty |-> o["qty"].num, unit |-> o["unit"].str, status |-> o["status"].str,
   location |-> o["location"].str,
   checkedBy |-> IF "checkedBy" \in DOMAIN o THEN Some(o["checkedBy"].arr) ELSE None,
   lastUpdated |-> IF "lastUpdated" \in DOMAIN o THEN Some(o["lastUpdated"].num) ELSE None]

\* the parsed payload when it is an array, nothing otherwise
fromJSON(text) ==
  IF "array" \in DOMAIN text
  THEN [ok |-> TRUE, items |-> [i \in 1..Len(text.array) |-> FromObject(text.array[i])]]
  ELSE [ok |-> FALSE, items |-> <<>>]

ListCalls ==
  {[fn |-> f, items |-> its] : f \in {"nextId", "toCSV", "toJSON"}, its \in RecordLists}
    \cup {[fn |-> "fromJSON", items |-> <<>>, text |-> [object |-> TRUE]]}

InitLists ==
  /\ StoreIdle
  /\ items = [c \in Clients |-> SEED]
  /\ rendered = [c \in Clients |-> [items |-> SEED, checkers |-> DEFAULT_CHECKERS]]
  /\ ViewDefaults
  /\ call \in {Some(a) : a \in ListCalls}
  /\ ret = None

CallNextId ==
  /\ call # None /\ ret = None
  /\ call[1].fn = "nextId"
  /\ ret' = Some(nextId(call[1].items))
  /\ UNCHANGED <<storeVars, viewVars, call>>

CallToCSV ==
  /\ call # None /\ ret = None
  /\ call[1].fn = "toCSV"
  /\ ret' = Some(toCSV(call[1].items))
  /\ UNCHANGED <<storeVars, viewVars, call>>

CallToJSON ==
  /\ call # None /\ ret = None
  /\ call[1].fn = "toJSON"
  /\ ret' = Some(toJSON(call[1].items))
  /\ UNCHANGED <<storeVars, viewVars, call>>

\* the exported text is imported
ImportExported ==
  /\ call # None /\ ret # None
  /\ call[1].fn = "toJSON"
  /\ call' = Some([fn |-> "fromJSON", items |-> call[1].items, text |-> ret[1]])
  /\ ret' = None
  /\ UNCHANGED <<storeVars, viewVars>>

CallFromJSON ==
  /\ call # None /\ ret = None
  /\ call[1].fn = "fromJSON"
  /\ ret' = Some(fromJSON(call[1].text))
  /\ UNCHANGED <<storeVars, viewVars, call>>

NextLists ==
  \/ CallNextId
  \/ CallToCSV
  \/ CallToJSON
  \/ ImportExported
  \/ CallFromJSON

SpecLists == InitLists /\ [][NextLists]_vars

\* C34: the delimited-text export of n records splits at the line breaks
\* into one header row and n record rows, and importing the JSON export of
\* a record list gives the same records: as many, in the same order, with
\* the same ids and fields.
C34_ExportImportRoundTrip ==
  /\ (call # None /\ call[1].fn = "toCSV" /\ ret # None) =>
        /\ SplitLines(ret[1]) = 1 + Len(call[1].items)
        /\ ret[1][1] = [line |-> CsvColumns]
  /\ (call # None /\ call[1].fn = "fromJSON" /\ ret # None /\ "array" \in DOMAIN call[1].text) =>
        /\ ret[1].ok
        /\ Len(ret[1].items) = Len(call[1].items)
        /\ \A i \in 1..Len(call[1].items) : ret[1].items[i] = call[1].items[i]

\* a list of MaxLen records, with and without the optional fields, has
\* been exported as JSON and imported again
C34_Witness ==
  /\ call # None /\ call[1].fn = "fromJSON" /\ ret # None
  /\ Len(call[1].items) = MaxLen /\ ret[1].ok
  /\ \E i, j \in 1..MaxLen :
       /\ call[1].items[i].checkedBy = None
       /\ call[1].items[j].checkedBy # None /\ call[1].items[j].lastUpdated # None


\* C40: nextId returns 1 for an empty list and the greatest id of the list
\* plus one otherwise; what it returns is the id of no record of the list.
C40_NextIdIsFresh ==
  (call # None /\ call[1].fn = "nextId" /\ ret # None) =>
    LET its == call[1].items
    IN /\ its = <<>> => ret[1] = 1
       /\ its # <<>> =>
            /\ \E i \in 1..Len(its) : its[i].id = ret[1] - 1
            /\ \A i \in 1..Len(its) : its[i].id <= ret[1] - 1
       /\ ret[1] \notin IdsOf(its)

\* nextId has been called with a list whose greatest id is neither its
\* length nor the id of its last record
C40_Witness ==
  /\ call # None /\ call[1].fn = "nextId" /\ ret # None
  /\ Len(call[1].items) = MaxLen
  /\ call[1].items[1].id = 53 /\ ret[1] = 54


(***************************************************************************)
(* adjustQty against the current state                                     *)
(***************************************************************************)

\* C35: the record a quantity adjustment sends to the backend has the
\* quantity and the status of the record the adjustment leaves in the
\* client's state, also when the state has changed since the render the
\* handler closed over.
C35_PayloadIsLocalRecord ==
  [][\A c \in Clients : \A id \in ActIds, delta \in {-1, 1} :
       (AdjustQty(c, id, delta) /\ Dispatched(c) /\ id \in IdsOf(items[c])) =>
         LET sent == tasks'[c][Len(tasks'[c])].item[1]
             left == Find(items'[c], id)[1]
         IN sent.qty = left.qty /\ sent.status = left.status]_vars


(***************************************************************************)
(* a deleted record                                                        *)
(***************************************************************************)

\* the backend has committed a delete of record id, as a change event some
\* client holds or has handled shows, and holds no row of that id
DeleteCommitted(id) ==
  /\ dbItems[id] = None
  /\ \E c \in Clients :
       \/ lastEv[c].op = "DELETE" /\ lastEv[c].id = id
       \/ \E i \in 1..Len(queue[c]) :
            queue[c][i].table = "items" /\ queue[c][i].op = "DELETE" /\ queue[c][i].id = id

\* C36: once a delete of record id is committed in the backend, no step
\* brings id back: not into the backend table, and not into the state of a
\* client that holds no record id, whatever adjustments and confirmations
\* for id are still under way.
C36_DeletedStaysDeleted ==
  [][\A id \in Ids :
       DeleteCommitted(id) =>
         /\ dbItems'[id] = None
         /\ \A c \in Clients : id \notin IdsOf(items[c]) => id \notin IdsOf(items'[c])]_vars


(***************************************************************************)
(* roster writes of two clients                                            *)
(***************************************************************************)

\* C37: the requests of an addMember insert at most the added name and
\* delete nothing; the requests of a removeMember insert nothing and delete
\* at most one name, a name the acting client's roster has held: no name
\* another client added is deleted and no name another client removed is
\* inserted again.
C37_RosterWriteChangesOneName ==
  [][\A c \in Clients : \A k \in 1..Len(tasks[c]) :
       (/\ tasks[c][k].kind \in RosterKinds
        /\ tasks[c][k].pc \in {"cdelete", "cinsert"}
        /\ Len(tasks'[c]) = Len(tasks[c])
        /\ tasks'[c][k].pc # tasks[c][k].pc) =>
         LET t == tasks[c][k]
             added == dbCheckers' \ dbCheckers
             removed == dbCheckers \ dbCheckers'
         IN IF t.kind = "addMember"
            THEN removed = {} /\ added \subseteq {t.next[Len(t.next)]}
            ELSE /\ added = {}
                 /\ Cardinality(removed) <= 1
                 /\ removed \subseteq everIn[c]]_vars



\* ------------------------------------------------ roster events during a roster write
\* C38: when an addMember or removeMember of a client completes, the
\* client's roster reflects its own change and every checker event the
\* client applied since the handler started: the names such events added
\* are in it, the names such events removed are not
C38_RosterEventsSurviveOwnWrite ==
  [][\A c \in Clients : \A k \in 1..Len(tasks[c]) :
       (tasks[c][k].kind \in RosterKinds /\ ResumeSetCheckers(c, k)) =>
         LET t == tasks[c][k]
             evAdded == Range(checkers[c]) \ Range(t.base)
             evRemoved == Range(t.base) \ Range(checkers[c])
             after == Range(checkers'[c])
         IN /\ evAdded \subseteq after
            /\ evRemoved \cap after \subseteq
                 (IF t.kind = "addMember" THEN {t.next[Len(t.next)]} ELSE {})
            /\ t.kind = "addMember" => t.next[Len(t.next)] \in after
            /\ t.kind = "removeMember" =>
                 (Range(t.base) \ Range(t.next)) \cap after = {}]_vars



\* ------------------------------------------------ the frame of adjustQty
\* C39: a quantity adjustment for id leaves every record of another id and
\* the roster of the client's state as they are, and when the client's
\* state holds no record of that id the collection stays as it is and no
\* write is dispatched
C39_AdjustTouchesOnlyItsRecord ==
  [][\A c \in Clients : \A id \in ActIds, delta \in {-1, 1} :
       AdjustQty(c, id, delta) =>
         /\ Len(items'[c]) = Len(items[c])
         /\ \A i \in 1..Len(items[c]) :
              items[c][i].id # id => items'[c][i] = items[c][i]
         /\ checkers'[c] = checkers[c]
         /\ id \notin IdsOf(items[c]) =>
              items'[c] = items[c] /\ ~Dispatched(c)]_vars

====
